---- MODULE Spec2Model ----
(***************************************************************************)
(* A model of python-udbus: the header-field codec (marshalling.py), the   *)
(* message object (message.py) and the connection (dbus.py) talking to a   *)
(* bus over a stream socket.                                               *)
(*                                                                         *)
(* Representation of Python values:                                        *)
(*   bytes / str   a sequence of byte values 0..255 (the model's strings   *)
(*                 are ASCII, for which utf8 and ascii encode one byte per *)
(*                 character)                                              *)
(*   u32           a 4-tuple of bytes, most significant first, so that the *)
(*                 whole range 0 .. 2^32-1 is representable                *)
(*   small ints    (lengths, offsets, type, flags) TLA+ integers           *)
(*   dict values   records tagged with the Python type: PyStr, PyInt, None *)
(***************************************************************************)
EXTENDS Integers, Sequences, FiniteSets, TLC

----------------------------------------------------------------------------
(* Python values *)

None == [t |-> "none", v |-> <<>>]
PyStr(s) == [t |-> "str", v |-> s]
PyInt(u) == [t |-> "int", v |-> u]

Min(a, b) == IF a < b THEN a ELSE b

Zeros(n) == [i \in 1..n |-> 0]

Reverse(s) == [i \in 1..Len(s) |-> s[Len(s) + 1 - i]]

\* s[a:b] of Python, offsets counted from 0, clamped to the sequence
Slice(s, a, b) == SubSeq(s, a + 1, Min(b, Len(s)))

\* -n % a of Python: the distance from n to the next multiple of a
Pad(n, a) == (a - (n % a)) % a

\* n.to_bytes(size, byteorder) for a small non-negative n
IntToBytes(n, size, byteorder) ==
    LET be == [i \in 1..size |-> (n \div (256 ^ (size - i))) % 256]
    IN  IF byteorder = "big" THEN be ELSE Reverse(be)

\* int.from_bytes(b, byteorder) for a value below 2^31
RECURSIVE BigEndianValue(_)
BigEndianValue(b) ==
    IF b = <<>> THEN 0
    ELSE 256 * BigEndianValue(SubSeq(b, 1, Len(b) - 1)) + b[Len(b)]

BytesToInt(b, byteorder) ==
    BigEndianValue(IF byteorder = "big" THEN b ELSE Reverse(b))

\* value.to_bytes(4, byteorder) and int.from_bytes(b, byteorder) of a u32
U32ToBytes(u, byteorder) == IF byteorder = "big" THEN u ELSE Reverse(u)

BytesToU32(b, byteorder) == IF byteorder = "big" THEN b ELSE Reverse(b)

U32(n) == IntToBytes(n, 4, "big")

\* u + 1 and u < w on u32 values
RECURSIVE Carry(_, _)
Carry(u, i) ==
    IF i = 0 THEN u
    ELSE IF u[i] = 255 THEN Carry([u EXCEPT ![i] = 0], i - 1)
    ELSE [u EXCEPT ![i] = u[i] + 1]

U32Succ(u) == Carry(u, 4)

U32Less(u, w) ==
    \E i \in 1..4 : u[i] < w[i] /\ \A j \in 1..(i - 1) : u[j] = w[j]

U32Max == <<255, 255, 255, 255>>

----------------------------------------------------------------------------
(* marshalling.py: the header-field array *)

HEADER_FIELDS ==
    <<"path", "interface", "member", "error", "reply",
      "destination", "sender", "signature", "unixfds">>

\* b'\0osssussgu'
HEADER_FIELDS_SIGNATURE == <<0, 111, 115, 115, 115, 117, 115, 115, 103, 117>>

\* dict.get(key)
\* fields.get(field) were a value that is false (0, '') taken for no value
DictGetTruthy(d, key) ==
    IF key \in DOMAIN d /\ d[key].v \notin {<<>>, <<0, 0, 0, 0>>}
    THEN d[key] ELSE None

DictGet(d, key) == IF key \in DOMAIN d THEN d[key] ELSE None

RECURSIVE MarshalFieldsFrom(_, _, _, _)
MarshalFieldsFrom(i, byteorder, fields, buffer) ==
    IF i > Len(HEADER_FIELDS) THEN buffer
    ELSE
      LET signature == HEADER_FIELDS_SIGNATURE[i + 1]
          value == DictGet(fields, HEADER_FIELDS[i])
          b == Zeros(Pad(Len(buffer), 8)) \o <<i, 1, signature, 0>>
          l == IntToBytes(Len(value.v), IF signature = 103 THEN 1 ELSE 4,
                          byteorder)
          payload == IF signature = 117 THEN U32ToBytes(value.v, byteorder)
                     ELSE l \o value.v \o <<0>>
      IN  IF value = None
          THEN MarshalFieldsFrom(i + 1, byteorder, fields, buffer)
          ELSE MarshalFieldsFrom(i + 1, byteorder, fields,
                                 buffer \o b \o payload)

\* DBusMarshal.fields(byteorder, **fields)
MarshalFields(byteorder, fields) == MarshalFieldsFrom(1, byteorder, fields, <<>>)

RECURSIVE UnmarshalFieldsFrom(_, _, _, _)
UnmarshalFieldsFrom(p, byteorder, buffer, fields) ==
    IF p >= Len(buffer) THEN fields
    ELSE
      LET i == buffer[p + 1]
          signature == buffer[p + 3]
          p1 == p + 4
          n == IF signature = 103 THEN buffer[p1 + 1]
               ELSE BytesToInt(Slice(buffer, p1, p1 + 4), byteorder)
          p2 == IF signature = 103 THEN p1 + 1 ELSE p1 + 4
          value == IF signature = 117
                   THEN PyInt(BytesToU32(Slice(buffer, p1, p1 + 4), byteorder))
                   ELSE PyStr(Slice(buffer, p2, p2 + n))
          p3 == IF signature = 117 THEN p2 ELSE p2 + n + 1
      IN  UnmarshalFieldsFrom(p3 + Pad(p3, 8), byteorder, buffer,
                              [fields EXCEPT ![HEADER_FIELDS[i]] = value])

\* DBusUnmarshal.fields(byteorder, buffer)
UnmarshalFields(byteorder, buffer) ==
    UnmarshalFieldsFrom(0, byteorder, buffer,
        [l \in {HEADER_FIELDS[i] : i \in 1..Len(HEADER_FIELDS)} |-> None])

----------------------------------------------------------------------------
(* marshalling.py: body values of the basic types y, u, h, s, o, g.  The    *)
(* signature is the stack of type codes, next code first.                  *)

\* DBusMarshal.align
MarshalAlign(b, alignment) == b \o Zeros(Pad(Len(b), alignment))

\* DBusMarshal.string(size, encoding)
MarshalString(size, byteorder, string, b) ==
    (IF size > 1 THEN MarshalAlign(b, size) ELSE b)
        \o IntToBytes(Len(string.v), size, byteorder) \o string.v \o <<0>>

\* DBusMarshal.SIGNATURES[code](item)
MarshalItem(code, byteorder, item, b) ==
    CASE code = 121 -> b \o <<item.v[4]>>
      [] code \in {117, 104} ->
             MarshalAlign(b, 4) \o U32ToBytes(item.v, byteorder)
      [] code \in {115, 111} -> MarshalString(4, byteorder, item, b)
      [] code = 103 -> MarshalString(1, byteorder, item, b)

RECURSIVE MarshalItems(_, _, _, _)
MarshalItems(byteorder, signature, data, b) ==
    IF data = <<>> THEN b
    ELSE MarshalItems(byteorder, Tail(signature), Tail(data),
                      MarshalItem(Head(signature), byteorder, Head(data), b))

\* DBusMarshal.__call__(byteorder, signature, *data)
Marshal(byteorder, signature, data) ==
    MarshalItems(byteorder, signature, data, <<>>)

\* DBusUnmarshal.align: the read position moved to the next multiple
UnmarshalAlign(pos, alignment) == pos + Pad(pos, alignment)

\* DBusUnmarshal.string(size, encoding): the value and the position after it
UnmarshalString(size, byteorder, data, pos) ==
    LET p == IF size > 1 THEN UnmarshalAlign(pos, size) ELSE pos
        n == BytesToInt(Slice(data, p, p + size), byteorder)
    IN  [value |-> PyStr(Slice(data, p + size, p + size + n)),
         pos |-> p + size + n + 1]

\* DBusUnmarshal.SIGNATURES[code]()
UnmarshalItem(code, byteorder, data, pos) ==
    CASE code = 121 ->
             [value |-> PyInt(<<0, 0, 0, data[pos + 1]>>), pos |-> pos + 1]
      [] code \in {117, 104} ->
             LET p == UnmarshalAlign(pos, 4)
             IN  [value |-> PyInt(BytesToU32(Slice(data, p, p + 4), byteorder)),
                  pos |-> p + 4]
      [] code \in {115, 111} -> UnmarshalString(4, byteorder, data, pos)
      [] code = 103 -> UnmarshalString(1, byteorder, data, pos)

RECURSIVE UnmarshalItems(_, _, _, _, _)
UnmarshalItems(byteorder, signature, data, pos, l) ==
    IF signature = <<>> THEN l
    ELSE LET r == UnmarshalItem(Head(signature), byteorder, data, pos)
         IN  UnmarshalItems(byteorder, Tail(signature), data, r.pos,
                            Append(l, r.value))

\* DBusUnmarshal.__call__(byteorder, signature, data)
Unmarshal(byteorder, signature, data) ==
    UnmarshalItems(byteorder, signature, data, 0, <<>>)

----------------------------------------------------------------------------
(***************************************************************************)
(* marshalling.py: DBusMarshal with the containers and with the exceptions *)
(* it raises.  The marshaller is the signature stack (sig, next code       *)
(* first), the bytes written (buf) and the exception raised (exc, "" for   *)
(* none).  Values: a list, a tuple, a dict (its items in insertion order,  *)
(* each <<key, value>>), a bool (<<0>> or <<1>>), a float (its 8 IEEE      *)
(* bytes, most significant first), and PyStr, PyInt as before.  Integers   *)
(* are the non-negative ones below 2^32.                                   *)
(***************************************************************************)

PyList(l) == [t |-> "list", v |-> l]
PyTuple(l) == [t |-> "tuple", v |-> l]
PyDict(l) == [t |-> "dict", v |-> l]
PyBool(b) == [t |-> "bool", v |-> <<IF b THEN 1 ELSE 0>>]
PyFloat(b) == [t |-> "float", v |-> b]

\* the keys of SIGNATURES
SIGNATURES ==
    {121, 97, 118, 40, 123, 98, 100, 110, 113, 105, 117, 120, 116, 115, 111,
     103, 104}

\* the size and signedness SIGNATURES gives integer() for a code
IntegerSize(code) ==
    CASE code \in {110, 113} -> 2
      [] code \in {105, 117, 104} -> 4
      [] code \in {120, 116} -> 8

IntegerSigned(code) == code \in {110, 105, 120}

Raise(st, exc) == [st EXCEPT !.exc = exc]

\* a statement that names a value: the value is computed once, and what
\* follows the statement, F, goes on with it
Bind(value, F(_)) == CHOOSE y \in {F(x) : x \in {value}} : TRUE

\* integer.to_bytes(size, byteorder, signed=signed): the bytes, or <<>> when
\* the integer does not fit (OverflowError)
ToBytes(u, size, byteorder, signed) ==
    LET fits == CASE size = 2 -> u[1] = 0 /\ u[2] = 0 /\ (signed => u[3] < 128)
                  [] size = 4 -> signed => u[1] < 128
                  [] size = 8 -> TRUE
        be == CASE size = 2 -> <<u[3], u[4]>>
                [] size = 4 -> u
                [] size = 8 -> <<0, 0, 0, 0>> \o u
    IN  IF ~fits THEN <<>>
        ELSE IF byteorder = "big" THEN be ELSE Reverse(be)

\* DBusMarshal.byte, boolean, integer, double, string
PackBasic(code, byteorder, item, st) ==
    CASE code = 121 ->
             IF item.v[1] = 0 /\ item.v[2] = 0 /\ item.v[3] = 0
             THEN [st EXCEPT !.buf = @ \o <<item.v[4]>>]
             ELSE Raise(st, "OverflowError")
      [] code = 98 ->
             [st EXCEPT !.buf = MarshalAlign(@, 4) \o
                 (IF byteorder = "little" THEN <<item.v[1], 0, 0, 0>>
                  ELSE <<0, 0, 0, item.v[1]>>)]
      [] code = 100 ->
             [st EXCEPT !.buf = MarshalAlign(@, 8) \o
                 (IF byteorder = "little" THEN Reverse(item.v) ELSE item.v)]
      [] code \in {115, 111} ->
             [st EXCEPT !.buf = MarshalString(4, byteorder, item, @)]
      [] code = 103 ->
             [st EXCEPT !.buf = MarshalString(1, byteorder, item, @)]
      [] OTHER ->
             LET size == IntegerSize(code)
                 b == ToBytes(item.v, size, byteorder, IntegerSigned(code))
             IN  IF b = <<>>
                 THEN [st EXCEPT !.buf = MarshalAlign(@, size),
                                 !.exc = "OverflowError"]
                 ELSE [st EXCEPT !.buf = MarshalAlign(@, size) \o b]

RECURSIVE PackItem(_, _, _, _)
RECURSIVE PackArrayItems(_, _, _, _, _)
RECURSIVE PackStructItems(_, _, _)

\* self.SIGNATURES[self.signature.pop()](item)
PackNext(byteorder, item, st) ==
    IF st.exc # "" THEN st
    ELSE IF st.sig = <<>> THEN Raise(st, "IndexError")
    ELSE IF Head(st.sig) \notin SIGNATURES
    THEN Raise([st EXCEPT !.sig = Tail(@)], "KeyError")
    ELSE PackItem(Head(st.sig), byteorder, item, [st EXCEPT !.sig = Tail(@)])

\* DBusMarshal.array(l)
PackArray(byteorder, l, st) ==
    IF st.sig = <<>> THEN Raise(st, "IndexError")
    ELSE IF Head(st.sig) \notin SIGNATURES
    THEN Raise([st EXCEPT !.sig = Tail(@)], "KeyError")
    ELSE
      LET code == Head(st.sig)
          reset == Tail(st.sig)
          b == MarshalAlign(st.buf, 4) \o <<35, 35, 35, 35>>
          start == Len(b)
      IN  Bind(PackArrayItems(code, byteorder, l.v, reset,
                              [sig |-> reset, buf |-> b, exc |-> ""]),
               LAMBDA r :
                 LET length == Len(r.buf) - start
                 IN  IF r.exc # "" THEN r
                     ELSE [r EXCEPT !.buf = Slice(r.buf, 0, start - 4)
                                              \o IntToBytes(length, 4, byteorder)
                                              \o Slice(r.buf, start, Len(r.buf))])

\* the loop of DBusMarshal.array: every item starts from a copy of reset
PackArrayItems(code, byteorder, items, reset, st) ==
    IF items = <<>> \/ st.exc # "" THEN st
    ELSE Bind(PackItem(code, byteorder, Head(items), [st EXCEPT !.sig = reset]),
              LAMBDA r : PackArrayItems(code, byteorder, Tail(items), reset, r))

\* the loop of DBusMarshal.struct
PackStructItems(byteorder, items, st) ==
    IF st.exc # "" \/ st.sig = <<>> THEN st
    ELSE LET s == Head(st.sig)
             st1 == [st EXCEPT !.sig = Tail(@)]
         IN  IF s = 41 THEN st1
             ELSE IF s \notin SIGNATURES THEN Raise(st1, "KeyError")
             ELSE IF items = <<>> THEN Raise(st1, "StopIteration")
             ELSE Bind(PackItem(s, byteorder, Head(items), st1),
                       LAMBDA r : PackStructItems(byteorder, Tail(items), r))

\* DBusMarshal.variant(t)
PackVariant(byteorder, t, st) ==
    Bind(PackBasic(103, byteorder, t.v[1], st), LAMBDA st1 :
      Bind(PackNext(byteorder, t.v[2], [st1 EXCEPT !.sig = t.v[1].v]),
           LAMBDA st2 :
             IF st2.exc # "" THEN st2 ELSE [st2 EXCEPT !.sig = st1.sig]))

\* DBusMarshal.dictentry(d)
PackDictentry(byteorder, d, st) ==
    LET st0 == [st EXCEPT !.buf = MarshalAlign(@, 8)]
        kv == d.v[Len(d.v)]
    IN  IF d.v = <<>> THEN Raise(st0, "KeyError")
        ELSE
          Bind(PackNext(byteorder, kv[1], st0), LAMBDA st1 :
            Bind(PackNext(byteorder, kv[2], st1), LAMBDA st2 :
              IF st2.exc # "" THEN st2
              ELSE IF st2.sig = <<>> THEN Raise(st2, "IndexError")
              ELSE IF Head(st2.sig) # 125
              THEN Raise([st2 EXCEPT !.sig = Tail(@)], "AssertionError")
              ELSE [st2 EXCEPT !.sig = Tail(@)]))

\* DBusMarshal.SIGNATURES[code](item)
PackItem(code, byteorder, item, st) ==
    CASE code = 97 -> PackArray(byteorder, item, st)
      [] code = 40 ->
             PackStructItems(byteorder, item.v,
                             [st EXCEPT !.buf = MarshalAlign(@, 8)])
      [] code = 118 -> PackVariant(byteorder, item, st)
      [] code = 123 -> PackDictentry(byteorder, item, st)
      [] OTHER -> PackBasic(code, byteorder, item, st)

\* the loop of DBusMarshal.__call__
RECURSIVE PackItems(_, _, _)
PackItems(byteorder, data, st) ==
    IF data = <<>> \/ st.exc # "" THEN st
    ELSE Bind(PackNext(byteorder, Head(data), st),
              LAMBDA r : PackItems(byteorder, Tail(data), r))

\* DBusMarshal.__call__(byteorder, signature, *data): the exception it
\* raises, or "" and the bytes it returns; sig is what is left of the stack
Pack(byteorder, signature, data) ==
    Bind(<<data, [sig |-> signature, buf |-> <<>>, exc |-> ""]>>,
         LAMBDA a : PackItems(byteorder, a[1], a[2]))

----------------------------------------------------------------------------
(***************************************************************************)
(* marshalling.py: DBusUnmarshal with the containers and the exceptions.   *)
(* The unmarshaller is the signature stack (sig), the read position (pos), *)
(* the exception raised (exc) and the value read last (value).             *)
(***************************************************************************)

\* BytesIO.read(n) at pos: what is there, at most n bytes
Read(data, pos, n) == IF pos >= Len(data) THEN <<>> ELSE Slice(data, pos, pos + n)

RECURSIVE StripZeros(_)
StripZeros(b) == IF b # <<>> /\ b[1] = 0 THEN StripZeros(Tail(b)) ELSE b

\* int.from_bytes(b, byteorder, signed=signed): below 2^32 the four bytes of
\* the value, above it the bytes without leading zeros; a negative value is
\* kept as its bytes
FromBytes(b, byteorder, signed) ==
    LET be == IF byteorder = "big" THEN b ELSE Reverse(b)
        s == StripZeros(be)
    IN  IF signed /\ be # <<>> /\ be[1] >= 128
        THEN [t |-> "negative", v |-> be]
        ELSE PyInt(IF Len(s) >= 4 THEN s ELSE Zeros(4 - Len(s)) \o s)

\* an int below 2^31 as a number
IntValue(i) == BigEndianValue(i.v)

Got(st, pos, value) == [st EXCEPT !.pos = pos, !.value = value]

\* DBusUnmarshal.string(size, encoding) on the unmarshaller st
UnpackString(code, byteorder, data, st) ==
    LET size == IF code = 103 THEN 1 ELSE 4
        p == IF size > 1 THEN UnmarshalAlign(st.pos, size) ELSE st.pos
        l == Read(data, p, size)
        n == BytesToInt(l, byteorder)
        b == Read(data, p + Len(l), n)
    IN  IF code \in {111, 103} /\ \E i \in 1..Len(b) : b[i] > 127
        THEN Raise(st, "UnicodeDecodeError")
        ELSE Got(st, p + Len(l) + Len(b) + 1, PyStr(b))

\* DBusUnmarshal.byte, boolean, integer, double, string
UnpackBasic(code, byteorder, data, st) ==
    CASE code = 121 ->
             LET b == Read(data, st.pos, 1)
             IN  IF b = <<>> THEN Raise(st, "IndexError")
                 ELSE Got(st, st.pos + 1, PyInt(<<0, 0, 0, b[1]>>))
      [] code = 98 ->
             LET p == UnmarshalAlign(st.pos, 4)
                 b == Read(data, p, 4)
             IN  Got(st, p + Len(b), PyBool(b # <<0, 0, 0, 0>>))
      [] code = 100 ->
             LET p == UnmarshalAlign(st.pos, 8)
                 b == Read(data, p, 8)
             IN  IF Len(b) < 8 THEN Raise(st, "struct.error")
                 ELSE Got(st, p + 8,
                          PyTuple(<<PyFloat(IF byteorder = "little"
                                            THEN Reverse(b) ELSE b)>>))
      [] code \in {115, 111, 103} -> UnpackString(code, byteorder, data, st)
      [] OTHER ->
             LET size == IntegerSize(code)
                 p == UnmarshalAlign(st.pos, size)
                 b == Read(data, p, size)
             IN  Got(st, p + Len(b),
                     FromBytes(b, byteorder, IntegerSigned(code)))

RECURSIVE UnpackItem(_, _, _, _)
RECURSIVE UnpackArrayItems(_, _, _, _, _, _, _)
RECURSIVE UnpackStructItems(_, _, _, _)

\* self.SIGNATURES[self.signature.pop()]()
UnpackNext(byteorder, data, st) ==
    IF st.exc # "" THEN st
    ELSE IF st.sig = <<>> THEN Raise(st, "IndexError")
    ELSE IF Head(st.sig) \notin SIGNATURES
    THEN Raise([st EXCEPT !.sig = Tail(@)], "KeyError")
    ELSE UnpackItem(Head(st.sig), byteorder, data, [st EXCEPT !.sig = Tail(@)])

\* dict.update({key: value}) and list.append(value)
Add(code, container, value) ==
    IF code # 123 THEN PyList(Append(container.v, value))
    ELSE LET kv == value.v[1]
             at == {i \in 1..Len(container.v) : container.v[i][1] = kv[1]}
         IN  IF at = {} THEN PyDict(Append(container.v, kv))
             ELSE PyDict([i \in 1..Len(container.v) |->
                             IF i \in at THEN kv ELSE container.v[i]])

\* DBusUnmarshal.array()
UnpackArray(byteorder, data, st) ==
    IF st.sig = <<>> THEN Raise(st, "IndexError")
    ELSE IF Head(st.sig) \notin SIGNATURES
    THEN Raise([st EXCEPT !.sig = Tail(@)], "KeyError")
    ELSE
      LET s == Head(st.sig)
          reset == Tail(st.sig)
      IN  Bind(UnpackBasic(117, byteorder, data, [st EXCEPT !.sig = reset]),
               LAMBDA l :
                 UnpackArrayItems(s, byteorder, data, reset,
                                  IntValue(l.value) + l.pos, l,
                                  IF s = 123 THEN PyDict(<<>>) ELSE PyList(<<>>)))

\* the loop of DBusUnmarshal.array: every item starts from a copy of reset
UnpackArrayItems(s, byteorder, data, reset, end, st, container) ==
    IF st.exc # "" THEN st
    ELSE IF st.pos >= end THEN [st EXCEPT !.value = container]
    ELSE Bind(UnpackItem(s, byteorder, data, [st EXCEPT !.sig = reset]),
              LAMBDA r :
                IF r.exc # "" THEN r
                ELSE Bind(Add(s, container, r.value), LAMBDA c :
                       UnpackArrayItems(s, byteorder, data, reset, end, r, c)))

\* the loop of DBusUnmarshal.struct; array is the list it has so far
UnpackStructItems(byteorder, data, st, array) ==
    IF st.exc # "" THEN st
    ELSE IF st.sig = <<>> THEN [st EXCEPT !.value = PyTuple(array)]
    ELSE LET s == Head(st.sig)
             st1 == [st EXCEPT !.sig = Tail(@)]
         IN  IF s = 41 THEN [st1 EXCEPT !.value = PyTuple(array)]
             ELSE IF s \notin SIGNATURES THEN Raise(st1, "KeyError")
             ELSE Bind(UnpackItem(s, byteorder, data, st1), LAMBDA r :
                    IF r.exc # "" THEN r
                    ELSE Bind(Append(array, r.value), LAMBDA a :
                           UnpackStructItems(byteorder, data, r, a)))

\* DBusUnmarshal.variant()
UnpackVariant(byteorder, data, st) ==
    Bind(UnpackBasic(103, byteorder, data, st), LAMBDA g :
      IF g.exc # "" THEN g
      ELSE Bind(UnpackNext(byteorder, data, [g EXCEPT !.sig = g.value.v]),
                LAMBDA r :
                  IF r.exc # "" THEN r
                  ELSE [r EXCEPT !.sig = st.sig,
                                 !.value = PyTuple(<<g.value, r.value>>)]))

\* DBusUnmarshal.dictentry()
UnpackDictentry(byteorder, data, st) ==
    Bind(UnpackNext(byteorder, data, [st EXCEPT !.pos = UnmarshalAlign(@, 8)]),
         LAMBDA key :
      Bind(UnpackNext(byteorder, data, key), LAMBDA value :
        IF value.exc # "" THEN value
        ELSE IF value.sig = <<>> THEN Raise(value, "IndexError")
        ELSE IF Head(value.sig) # 125
        THEN Raise([value EXCEPT !.sig = Tail(@)], "AssertionError")
        ELSE [value EXCEPT !.sig = Tail(@),
                           !.value = PyDict(<<<<key.value, value.value>>>>)]))

\* DBusUnmarshal.SIGNATURES[code]()
UnpackItem(code, byteorder, data, st) ==
    CASE code = 97 -> UnpackArray(byteorder, data, st)
      [] code = 40 ->
             UnpackStructItems(byteorder, data,
                               [st EXCEPT !.pos = UnmarshalAlign(@, 8)], <<>>)
      [] code = 118 -> UnpackVariant(byteorder, data, st)
      [] code = 123 -> UnpackDictentry(byteorder, data, st)
      [] OTHER -> UnpackBasic(code, byteorder, data, st)

\* the loop of DBusUnmarshal.__call__; l is the list it has so far
RECURSIVE UnpackItems(_, _, _, _)
UnpackItems(byteorder, data, st, l) ==
    IF st.exc # "" THEN st
    ELSE IF st.sig = <<>> THEN [st EXCEPT !.value = PyList(l)]
    ELSE Bind(UnpackNext(byteorder, data, st), LAMBDA r :
           IF r.exc # "" THEN r
           ELSE Bind(Append(l, r.value), LAMBDA a :
                  UnpackItems(byteorder, data, r, a)))

\* DBusUnmarshal.__call__(byteorder, signature, data): the exception it
\* raises, or "" and the list it returns (value)
Unpack(byteorder, signature, data) ==
    Bind(<<data, [sig |-> signature, pos |-> 0, exc |-> "", value |-> None]>>,
         LAMBDA a : UnpackItems(byteorder, a[1], a[2], <<>>))

----------------------------------------------------------------------------
(* message.py: a message is the bytearray (buf) and the attributes held in *)
(* its __dict__                                                            *)

ENDIAN(byteorder) == IF byteorder = "little" THEN 108 ELSE 66

BYTEORDER(endian) == CASE endian = 108 -> "little" [] endian = 66 -> "big"

\* STRUCT_HEADER[endian].pack(*header), the format 4B3I
PackHeader(header) ==
    LET byteorder == BYTEORDER(header[1])
    IN  <<header[1], header[2], header[3], header[4]>>
            \o IntToBytes(header[5], 4, byteorder)
            \o U32ToBytes(header[6], byteorder)
            \o IntToBytes(header[7], 4, byteorder)

\* STRUCT_HEADER[buffer[0]].unpack(buffer[:16])
UnpackHeader(buffer) ==
    LET byteorder == BYTEORDER(buffer[1])
    IN  <<buffer[1], buffer[2], buffer[3], buffer[4],
          BytesToInt(Slice(buffer, 4, 8), byteorder),
          BytesToU32(Slice(buffer, 8, 12), byteorder),
          BytesToInt(Slice(buffer, 12, 16), byteorder)>>

Sum(length) == length[1] + length[2] + length[3] + length[4]

\* the second half of DBusMessage.__init__: the attributes, then the bytes
MessageInit(header, buffer) ==
    LET length == <<16, header[7], Pad(header[7], 8), header[5]>>
    IN  [byteorder |-> BYTEORDER(header[1]),
         type |-> header[2],
         flags |-> header[3],
         version |-> header[4],
         serial |-> header[6],
         length |-> length,
         buf |-> Slice(buffer, 0, Sum(length))]

\* DBusMessage(buffer)
MessageFromBytes(buffer) == MessageInit(UnpackHeader(buffer), buffer)

\* DBusMessage(byteorder=, type=, flags=, serial=, **fields)
MessageFromParts(byteorder, type, flags, serial, fields) ==
    LET f == MarshalFields(byteorder, fields)
        header == <<ENDIAN(byteorder), type, flags, 1, 0, serial, Len(f)>>
    IN  MessageInit(header, PackHeader(header) \o f \o Zeros(8))

\* DBusMessage.__getattr__ for a header field
GetField(m, attr) ==
    UnmarshalFields(m.byteorder, Slice(m.buf, 16, m.length[1] + m.length[2]))[attr]

\* DBusMessage.__setattr__
SetType(m, value) == [m EXCEPT !.type = value, !.buf[2] = value]

SetFlags(m, value) == [m EXCEPT !.flags = value, !.buf[3] = value]

\* the serial setter were it to write the bytes most significant first
\* whatever the byte order of the message
SetSerialNetworkOrder(m, value) ==
    [m EXCEPT !.serial = value,
              !.buf = Slice(m.buf, 0, 8) \o value \o Slice(m.buf, 12, Len(m.buf))]

SetSerial(m, value) ==
    [m EXCEPT !.serial = value,
              !.buf = Slice(m.buf, 0, 8) \o U32ToBytes(value, m.byteorder)
                          \o Slice(m.buf, 12, Len(m.buf))]

\* the body setter, for values that the signature field describes
SetBody(m, value) ==
    LET p == m.length[1] + m.length[2] + m.length[3]
        tail == Marshal(m.byteorder, GetField(m, "signature").v, value)
        l == Len(tail)
    IN  [m EXCEPT !.length = <<m.length[1], m.length[2], m.length[3], l>>,
                  !.buf = Slice(m.buf, 0, 4) \o IntToBytes(l, 4, m.byteorder)
                              \o Slice(m.buf, 8, p) \o tail]

\* the keys of DBusMessage.header
HeaderKeys ==
    {"type", "flags", "serial"} \cup
        {HEADER_FIELDS[i] : i \in 1..Len(HEADER_FIELDS)}

\* DBusMessage.header: a dict is a record over its possible keys, with None
\* for a key it does not hold
Header(m) ==
    LET fields == UnmarshalFields(m.byteorder,
                                  Slice(m.buf, 16, m.length[1] + m.length[2]))
    IN  [attr \in HeaderKeys |->
            CASE attr = "type" -> PyInt(U32(m.type))
              [] attr = "flags" -> PyInt(U32(m.flags))
              [] attr = "serial" -> PyInt(m.serial)
              [] OTHER -> fields[attr]]

\* DBusMessage.body: None, or the tuple of the decoded values
Body(m) ==
    IF m.length[4] = 0 THEN None
    ELSE [t |-> "tuple",
          v |-> Unmarshal(m.byteorder, GetField(m, "signature").v,
                          Slice(m.buf, m.length[1] + m.length[2] + m.length[3],
                                Len(m.buf)))]

\* header.items() <= self.header.items()
HeaderMatches(m, header) ==
    \A k \in HeaderKeys : header[k] # None => Header(m)[k] = header[k]

\* DBusMessage.match raises: iter(self.body) of a message without body
MatchRaises(m, header, body) ==
    HeaderMatches(m, header) /\ body # <<>> /\ Body(m) = None

\* DBusMessage.match were it to pass over the body
MatchHeaderOnly(m, header, body) == HeaderMatches(m, header)

\* DBusMessage.match(header, body)
Match(m, header, body) ==
    /\ HeaderMatches(m, header)
    /\ \/ body = <<>>
       \/ \A i \in 1..Len(body) :
             LET v1 == IF i <= Len(Body(m).v) THEN Body(m).v[i] ELSE None
             IN  ~(body[i] # None /\ body[i] # v1)

----------------------------------------------------------------------------
(* dbus.py: text of the handshake *)

ORG_FREEDESKTOP_DBUS ==
    [path |-> PyStr(<<47, 111, 114, 103, 47, 102, 114, 101, 101, 100, 101,
                      115, 107, 116, 111, 112, 47, 68, 66, 117, 115>>),
     destination |-> PyStr(<<111, 114, 103, 46, 102, 114, 101, 101, 100, 101,
                             115, 107, 116, 111, 112, 46, 68, 66, 117, 115>>)]

CRLF == <<13, 10>>

\* str(n) for n >= 0, as ASCII digits
RECURSIVE Decimal(_)
Decimal(n) ==
    IF n < 10 THEN <<48 + n>> ELSE Decimal(n \div 10) \o <<48 + (n % 10)>>

\* bytes.hex(): two lower-case hex digits per byte
HexDigit(d) == IF d < 10 THEN 48 + d ELSE 87 + d

RECURSIVE Hex(_)
Hex(b) ==
    IF b = <<>> THEN <<>>
    ELSE <<HexDigit(Head(b) \div 16), HexDigit(Head(b) % 16)>> \o Hex(Tail(b))

\* ' '.join(s for s in strings if s)
RECURSIVE JoinNonEmpty(_)
JoinNonEmpty(strings) ==
    IF strings = <<>> THEN <<>>
    ELSE LET rest == JoinNonEmpty(Tail(strings))
         IN  IF Head(strings) = <<>> THEN rest
             ELSE IF rest = <<>> THEN Head(strings)
             ELSE Head(strings) \o <<32>> \o rest

\* DBus.auth were it to send the data as it is, not in hex
AuthStringPlain(mechanism, data) ==
    JoinNonEmpty(<<<<65, 85, 84, 72>>, mechanism, data>>)

\* the string DBus.auth sends: AUTH, the mechanism and the hex of the data
AuthString(mechanism, data) ==
    JoinNonEmpty(<<<<65, 85, 84, 72>>, mechanism, Hex(data)>>)

\* the bytes DBus._sendstr writes for a string
SendstrBytes(string) == string \o CRLF

\* the test of DBus.auth were it to look for REJECTED only
NotRejected(string, prefix) ==
    ~(Len(string) >= 8
      /\ SubSeq(string, 1, 8) = <<82, 69, 74, 69, 67, 84, 69, 68>>)

\* str.startswith
StartsWith(string, prefix) ==
    Len(string) >= Len(prefix) /\ SubSeq(string, 1, Len(prefix)) = prefix

\* sep.join(strings)
RECURSIVE Join(_, _)
Join(sep, strings) ==
    IF strings = <<>> THEN <<>>
    ELSE IF Len(strings) = 1 THEN Head(strings)
    ELSE Head(strings) \o sep \o Join(sep, Tail(strings))

\* '%s' % value for a str or None
Percent_s(value) == IF value = None THEN <<78, 111, 110, 101>> ELSE value.v

\* the message DBus.hello calls with
HelloMessage(byteorder) ==
    MessageFromParts(byteorder, 1, 0, U32(0),
        [path |-> ORG_FREEDESKTOP_DBUS.path,
         destination |-> ORG_FREEDESKTOP_DBUS.destination,
         interface |-> ORG_FREEDESKTOP_DBUS.destination,
         member |-> PyStr(<<72, 101, 108, 108, 111>>)])

\* iter(range(2**32)): a counter that starts at 0
SerialIterFromZero == [set |-> TRUE, next |-> U32(0), stop |-> FALSE]

\* iter(range(1, 2**32)): the next value, and whether the range is used up
SerialIter == [set |-> TRUE, next |-> U32(1), stop |-> FALSE]

NoSerial == [set |-> FALSE, next |-> U32(0), stop |-> FALSE]

\* the iterator after next() has yielded it.next
SerialAdvance(it) ==
    IF it.next = U32Max THEN [it EXCEPT !.stop = TRUE]
    ELSE [it EXCEPT !.next = U32Succ(it.next)]

\* the body of recv were it to return every message that matched
RecvMatchedReturns(raise, message) ==
    [kind |-> "return", exc |-> "", text |-> <<>>, msg |-> message]

\* what the body of recv does with a message that matched: the value it
\* returns or the exception it raises
RecvMatched(raise, message) ==
    IF raise /\ message.type = 3
    THEN IF Body(message) = None
            \/ \E i \in 1..Len(Body(message).v) : Body(message).v[i].t # "str"
         THEN [kind |-> "raise", exc |-> "TypeError", text |-> <<>>,
               msg |-> None]
         ELSE [kind |-> "raise", exc |-> "DBusError",
               text |-> Percent_s(GetField(message, "error")) \o <<58, 32>>
                          \o Join(<<59>>, [i \in 1..Len(Body(message).v) |->
                                              Body(message).v[i].v]),
               msg |-> None]
    ELSE [kind |-> "return", exc |-> "", text |-> <<>>, msg |-> message]

\* the size of DBus._recvmsg were it to leave out the padding of the header
RecvmsgSizeUnpadded(message) ==
    message.length[1] + message.length[2] + message.length[4]

\* size = sum(message.length) of DBus._recvmsg
RecvmsgSize(message) == Sum(message.length)

\* the message DBus._recvmsg holds once the bytes b (16 or more) are read:
\* the attributes come from the first 16 bytes, the bytes were extended
RecvmsgMessage(b) == [MessageFromBytes(Slice(b, 0, 16)) EXCEPT !.buf = b]

----------------------------------------------------------------------------
(***************************************************************************)
(* The connection, its caller and the bus at the other end of the socket.  *)
(*                                                                         *)
(* The caller has one thread: it connects a new DBus object once, uses     *)
(* send, call and recv only after connect() has returned, and after a      *)
(* connect() that raised only disconnects.  The bus answers the AUTH line  *)
(* once it is written, sends messages once Hello is written, and replies   *)
(* at most once to a call.  socket.sendall may raise at any time and does  *)
(* raise once the bus has closed; socket.shutdown and socket.close do not  *)
(* raise (Linux, a connected AF_UNIX socket); socket.recv blocks while     *)
(* nothing is to be read and the bus is there, and returns b'' once it has *)
(* closed.  The caller ends the connection by disconnect() or by leaving   *)
(* the with block that connected it.                                       *)
(* assert statements are executed.                                         *)
(***************************************************************************)

\* caller operations after connect() plus messages of the bus
MaxEvents == 5

VARIABLES
    raise_on_error,  \* DBus.raise_on_error
    _socket,         \* DBus._socket: "None" or "socket"
    _serial,         \* DBus._serial: NoSerial or the state of the iterator
    _name,           \* DBus._name
    byteorder,       \* sys.byteorder of the host
    euid,            \* os.geteuid()
    pc,              \* where the caller's thread is
    op,              \* the public operation it is in
    header,          \* recv: the header pattern
    body,            \* recv: the body pattern
    buffer,          \* _recvstr: buffer; _recvmsg: message
    size,            \* _recvmsg: size
    received,        \* length of what the last socket.recv returned, -1: none
    outcome,         \* how the last public operation ended
    sock,            \* the socket: "none", "open", "closed"
    wire,            \* what was written to the socket, one entry per sendall
    inbuf,           \* bytes the bus has sent and the client has not read
    peerClosed,      \* the bus has closed its end
    peerLine,        \* the line the bus has answered AUTH with, <<>>: none
    partial,         \* the piece of a message the bus sent before it broke
                     \* off, until the read that fails drops it
    arrived,         \* the messages the bus has sent, in order
    taken,           \* how many messages _recvmsg has returned
    start,           \* taken when the operation in progress began
    skipped,         \* which of them recv has dropped
    nops,            \* operations the caller has begun on the connection
    input,           \* the codec: what the caller passes to it
    packed,          \* the codec: what encoding the input gave
    unpacked,        \* the codec: what decoding the encoded bytes gave
    obj,             \* a message object: its bytes and attributes
    objBefore,       \* the message object before the last operation on it
    objOp,           \* the last operation on the message object
    pack,            \* DBusMessage.pack: the one DBusMarshal of the class
    unpack,          \* DBusMessage.unpack: the one DBusUnmarshal of the class
    threads          \* the threads that work on messages of their own

vars == <<raise_on_error, _socket, _serial, _name, byteorder, euid, pc, op,
          header, body, buffer, size, received, outcome, sock, wire, inbuf,
          peerClosed, peerLine, partial, arrived, taken, start, skipped,
          nops, input, packed, unpacked, obj, objBefore, objOp, pack,
          unpack, threads>>

connVars == <<raise_on_error, _socket, _serial, _name, byteorder, euid>>
recvVars == <<header, body, buffer, size, start>>
peerVars == <<inbuf, peerClosed, peerLine, partial, arrived>>
readVars == <<taken, skipped>>
codecVars == <<input, packed, unpacked>>
objVars == <<obj, objBefore, objOp>>
threadVars == <<pack, unpack, threads>>

\* the value of a variable that is not in use
Idle == [kind |-> "none"]

\* entries of wire
StrEntry(data) == [kind |-> "str", data |-> data, first |-> U32(0), last |-> U32(0)]
MsgEntry(m) == [kind |-> "msg", data |-> m.buf, first |-> m.serial, last |-> m.serial]
RunEntry(first, last) == [kind |-> "msgs", data |-> <<>>, first |-> first, last |-> last]

\* outcomes of a public operation
Pending(o) == [op |-> o, kind |-> "pending", exc |-> "", text |-> <<>>,
               msg |-> None, value |-> None, idx |-> 0]
Raised(o, exc, text, idx) ==
    [op |-> o, kind |-> "raise", exc |-> exc, text |-> text,
     msg |-> None, value |-> None, idx |-> idx]
Returned(o, msg, value, idx) == [op |-> o, kind |-> "return", exc |-> "",
                                 text |-> <<>>, msg |-> msg, value |-> value,
                                 idx |-> idx]

\* messages the caller builds
MethodCall ==
    MessageFromParts("big", 1, 0, U32(0),
                     [path |-> PyStr(<<47>>), member |-> PyStr(<<77>>)])

NoReplyCall ==
    MessageFromParts(byteorder, 1, 1, U32(0),
                     [path |-> PyStr(<<47>>), member |-> PyStr(<<77>>)])

\* the header pattern {}
NoHeader == [k \in HeaderKeys |-> None]

\* patterns the caller passes to recv: any message, a signal, a body of 'x'
RecvPatterns ==
    {[header |-> NoHeader, body |-> <<>>],
     [header |-> [NoHeader EXCEPT !["type"] = PyInt(U32(4))], body |-> <<>>],
     [header |-> NoHeader, body |-> <<PyStr(<<120>>)>>]}

\* messages of the bus in answer to the call with serial r: a method return,
\* an error with the body 'x' and an error without body
PeerReplies(r) ==
    {[byteorder |-> "big", type |-> 2,
      fields |-> [reply |-> PyInt(r), destination |-> PyStr(<<58, 49>>)],
      body |-> <<>>],
     [byteorder |-> "little", type |-> 3,
      fields |-> [reply |-> PyInt(r), error |-> PyStr(<<69>>),
                  signature |-> PyStr(<<115>>)],
      body |-> <<PyStr(<<120>>)>>],
     [byteorder |-> "little", type |-> 3,
      fields |-> [reply |-> PyInt(r), error |-> PyStr(<<69>>)],
      body |-> <<>>]}

\* a signal of the bus, with the body 'y'
PeerSignals ==
    {[byteorder |-> "little", type |-> 4,
      fields |-> [member |-> PyStr(<<77>>), signature |-> PyStr(<<115>>)],
      body |-> <<PyStr(<<121>>)>>]}

\* the bytes of the n-th message of the bus
PeerBytes(t, n) ==
    LET m == MessageFromParts(t.byteorder, t.type, 0, U32(n), t.fields)
    IN  IF t.body = <<>> THEN m.buf ELSE SetBody(m, t.body).buf

\* lines the bus answers AUTH with: OK 1, REJECTED, ERROR
AuthReplies ==
    {<<79, 75, 32, 49>>, <<82, 69, 74, 69, 67, 84, 69, 68>>,
     <<69, 82, 82, 79, 82>>}

EUIDs == {1000}

Init ==
    /\ raise_on_error \in BOOLEAN
    /\ _socket = "None"
    /\ _serial = NoSerial
    /\ _name = None
    /\ byteorder \in {"little"}
    /\ euid \in EUIDs
    /\ pc = "new"
    /\ op = "none"
    /\ header = NoHeader
    /\ body = <<>>
    /\ buffer = <<>>
    /\ size = 0
    /\ received = -1
    /\ outcome = Pending("none")
    /\ sock = "none"
    /\ wire = <<>>
    /\ inbuf = <<>>
    /\ peerClosed = FALSE
    /\ peerLine = <<>>
    /\ partial = <<>>
    /\ arrived = <<>>
    /\ taken = 0
    /\ start = 0
    /\ skipped = {}
    /\ nops = 0
    /\ input = Idle /\ packed = Idle /\ unpacked = Idle
    /\ obj = Idle /\ objBefore = Idle /\ objOp = Idle
    /\ pack = Idle /\ unpack = Idle /\ threads = Idle

\* offsets in a message at which the stream may be cut: where a chunk that
\* the socket hands over ends, and where the bus may break off
Cuts == {8, 20}

\* what socket.recv(n) may return with most bytes available and have bytes
\* of the message read: all of them, or the bytes up to a cut
Chunks(have, most) ==
    {k \in 1..most : k = most \/ have + k \in Cuts}

\* socket.sendall succeeds (ok) or raises; it raises when the peer is gone
Sendall(ok) == peerClosed => ~ok

\* DBus.connect up to the first line of the handshake
Connect ==
    /\ pc = "new"
    /\ \E ok \in BOOLEAN :
          IF ok
          THEN /\ sock' = "open"
               /\ wire' = <<StrEntry(<<0>>)>>
               /\ inbuf' = <<>>
               /\ peerClosed' = FALSE
               /\ peerLine' = <<>>
               /\ partial' = <<>>
               /\ arrived' = <<>>
               /\ taken' = 0
               /\ skipped' = {}
               /\ nops' = 0
               /\ _socket' = "socket"
               /\ _serial' = SerialIter
               /\ pc' = "auth"
               /\ op' = "connect"
               /\ outcome' = Pending("connect")
               /\ UNCHANGED <<raise_on_error, _name, byteorder, euid, recvVars,
                              received>>
          ELSE /\ outcome' = Raised("connect", "OSError", <<>>, 0)
               /\ UNCHANGED <<connVars, pc, op, recvVars, received, sock,
                              wire, peerVars, readVars, nops>>
    /\ UNCHANGED <<codecVars, objVars, threadVars>>

\* DBus.auth: the AUTH line is written
Auth ==
    /\ pc = "auth"
    /\ \E ok \in BOOLEAN :
          /\ Sendall(ok)
          /\ IF ok
             THEN /\ wire' = Append(wire, StrEntry(SendstrBytes(
                                AuthString(<<69, 88, 84, 69, 82, 78, 65, 76>>,
                                           Decimal(euid)))))
                  /\ pc' = "recvstr"
                  /\ buffer' = <<>>
                  /\ UNCHANGED outcome
             ELSE /\ outcome' = Raised("connect", "OSError", <<>>, 0)
                  /\ pc' = "broken"
                  /\ UNCHANGED <<wire, buffer>>
    /\ UNCHANGED <<connVars, op, header, body, size, received, start, sock,
                   peerVars, readVars, nops>>
    /\ UNCHANGED <<codecVars, objVars, threadVars>>

\* one turn of the loop of DBus._recvstr, and what DBus.auth does with the line
Recvstr ==
    /\ pc = "recvstr"
    /\ inbuf # <<>> \/ peerClosed
    /\ LET data == IF inbuf # <<>> THEN <<Head(inbuf)>> ELSE <<>>
           b == buffer \o data
           string == Slice(b, 0, Len(b) - 2)
           last2 == IF Len(b) < 2 THEN b ELSE SubSeq(b, Len(b) - 1, Len(b))
       IN  /\ received' = Len(data)
           /\ inbuf' = IF inbuf # <<>> THEN Tail(inbuf) ELSE inbuf
           /\ IF last2 # CRLF
              THEN /\ buffer' = b
                   /\ UNCHANGED <<pc, outcome>>
              ELSE /\ buffer' = b
                   /\ IF StartsWith(string, <<79, 75>>)
                      THEN pc' = "begin" /\ UNCHANGED outcome
                      ELSE /\ pc' = "broken"
                           /\ outcome' = Raised("connect", "DBusError", string, 0)
    /\ UNCHANGED <<connVars, op, header, body, size, start, sock, wire,
                   peerClosed, peerLine, partial, arrived, readVars, nops>>
    /\ UNCHANGED <<codecVars, objVars, threadVars>>

\* DBus.begin
Begin ==
    /\ pc = "begin"
    /\ \E ok \in BOOLEAN :
          /\ Sendall(ok)
          /\ IF ok
             THEN /\ wire' = Append(wire, StrEntry(SendstrBytes(
                                                     <<66, 69, 71, 73, 78>>)))
                  /\ pc' = "hello"
                  /\ UNCHANGED outcome
             ELSE /\ outcome' = Raised("connect", "OSError", <<>>, 0)
                  /\ pc' = "broken"
                  /\ UNCHANGED wire
    /\ UNCHANGED <<connVars, op, recvVars, received, sock, peerVars, readVars, nops>>
    /\ UNCHANGED <<codecVars, objVars, threadVars>>

\* DBus.send(message): the exception it raises ("": none), the iterator and
\* the message after it, and whether the message was written
SendResult(it, message, ok) ==
    IF it.stop
    THEN [exc |-> "StopIteration", it |-> it, msg |-> message, wrote |-> FALSE]
    ELSE [exc |-> IF ok THEN "" ELSE "OSError",
          it |-> SerialAdvance(it),
          msg |-> SetSerial(message, it.next),
          wrote |-> ok]

\* the assertion of DBus.call
CallAssertion(message) == message.type = 1 /\ message.flags % 2 = 0

\* recv({'serial': serial}): the pattern of call were it to name the wrong key
ReplyToSerial(serial) == [NoHeader EXCEPT !["serial"] = PyInt(serial)]

\* recv({'reply': serial})
ReplyTo(serial) == [NoHeader EXCEPT !["reply"] = PyInt(serial)]

\* DBus.hello: the Hello message is sent by call()
Hello ==
    /\ pc = "hello"
    /\ \E ok \in BOOLEAN :
          LET r == SendResult(_serial, HelloMessage(byteorder), ok)
          IN  /\ Sendall(ok)
              /\ _serial' = r.it
              /\ wire' = IF r.wrote THEN Append(wire, MsgEntry(r.msg)) ELSE wire
              /\ IF r.exc = ""
                 THEN /\ pc' = "recvmsg"
                      /\ header' = ReplyTo(r.msg.serial)
                      /\ body' = <<>>
                      /\ buffer' = <<>>
                      /\ size' = 16
                      /\ start' = taken
                      /\ UNCHANGED outcome
                 ELSE /\ pc' = "broken"
                      /\ outcome' = Raised("connect", r.exc, <<>>, 0)
                      /\ UNCHANGED <<header, body, buffer, size, start>>
    /\ received' = -1
    /\ UNCHANGED <<raise_on_error, _socket, _name, byteorder, euid, op,
                   sock, peerVars, readVars, nops>>
    /\ UNCHANGED <<codecVars, objVars, threadVars>>

\* DBus.send(message)
Send ==
    /\ pc = "ready"
    /\ nops + Len(arrived) < MaxEvents
    /\ nops' = nops + 1
    /\ \E message \in {MethodCall}, ok \in BOOLEAN :
          LET r == SendResult(_serial, message, ok)
          IN  /\ Sendall(ok)
              /\ _serial' = r.it
              /\ wire' = IF r.wrote THEN Append(wire, MsgEntry(r.msg)) ELSE wire
              /\ outcome' = IF r.exc = ""
                            THEN Returned("send", None, PyInt(r.msg.serial), 0)
                            ELSE Raised("send", r.exc, <<>>, 0)
    /\ op' = "send"
    /\ received' = -1
    /\ UNCHANGED <<raise_on_error, _socket, _name, byteorder, euid, pc,
                   recvVars, sock, peerVars, readVars>>
    /\ UNCHANGED <<codecVars, objVars, threadVars>>

\* a run of send() calls, none of which fails, up to the one that is given
\* the last value of the iterator, 2^32-1; the messages tell the bus not to
\* reply
SendRepeatedly ==
    /\ pc = "ready"
    /\ nops + Len(arrived) < MaxEvents
    /\ nops' = nops + 1
    /\ ~peerClosed
    /\ ~_serial.stop
    /\ U32Less(_serial.next, U32Max)
    /\ _serial' = SerialAdvance([_serial EXCEPT !.next = U32Max])
    /\ wire' = Append(wire, RunEntry(_serial.next, U32Max))
    /\ outcome' = Returned("send", None, PyInt(U32Max), 0)
    /\ op' = "send"
    /\ received' = -1
    /\ UNCHANGED <<raise_on_error, _socket, _name, byteorder, euid, pc,
                   recvVars, sock, peerVars, readVars>>
    /\ UNCHANGED <<codecVars, objVars, threadVars>>

\* DBus.call(message) up to the first read
Call ==
    /\ pc = "ready"
    /\ nops + Len(arrived) < MaxEvents
    /\ nops' = nops + 1
    /\ op' = "call"
    /\ received' = -1
    /\ \E message \in {MethodCall, NoReplyCall}, ok \in BOOLEAN :
          IF ~CallAssertion(message)
          THEN /\ outcome' = Raised("call", "AssertionError", <<>>, 0)
               /\ UNCHANGED <<_serial, wire, pc, recvVars>>
          ELSE LET r == SendResult(_serial, message, ok)
               IN  /\ Sendall(ok)
                   /\ _serial' = r.it
                   /\ wire' = IF r.wrote THEN Append(wire, MsgEntry(r.msg))
                              ELSE wire
                   /\ IF r.exc = ""
                      THEN /\ pc' = "recvmsg"
                           /\ header' = ReplyTo(r.msg.serial)
                           /\ body' = <<>>
                           /\ buffer' = <<>>
                           /\ size' = 16
                           /\ start' = taken
                           /\ outcome' = Pending("call")
                      ELSE /\ outcome' = Raised("call", r.exc, <<>>, 0)
                           /\ UNCHANGED <<pc, recvVars>>
    /\ UNCHANGED <<raise_on_error, _socket, _name, byteorder, euid, sock,
                   peerVars, readVars>>
    /\ UNCHANGED <<codecVars, objVars, threadVars>>

\* DBus.recv(header, body) up to the first read
Recv ==
    /\ pc = "ready"
    /\ nops + Len(arrived) < MaxEvents
    /\ nops' = nops + 1
    /\ op' = "recv"
    /\ received' = -1
    /\ \E p \in RecvPatterns :
          /\ header' = p.header
          /\ body' = p.body
    /\ pc' = "recvmsg"
    /\ buffer' = <<>>
    /\ size' = 16
    /\ start' = taken
    /\ outcome' = Pending("recv")
    /\ UNCHANGED <<connVars, sock, wire, peerVars, readVars>>
    /\ UNCHANGED <<codecVars, objVars, threadVars>>

\* one turn of the loop of DBus._recvmsg and, when it has the whole message,
\* the turn of the loop of DBus.recv that deals with it
Recvmsg ==
    /\ pc = "recvmsg"
    /\ inbuf # <<>> \/ peerClosed
    /\ IF inbuf = <<>>
       THEN /\ received' = 0
            /\ outcome' = Raised(op, "ConnectionResetError", <<>>, 0)
            /\ pc' = IF op = "connect" THEN "broken" ELSE "ready"
            /\ buffer' = <<>>
            /\ partial' = <<>>
            /\ UNCHANGED <<inbuf, size, taken, skipped, _name>>
       ELSE \E k \in Chunks(Len(buffer), Min(size - Len(buffer), Len(inbuf))) :
              LET b == buffer \o SubSeq(inbuf, 1, k)
                  sz == IF Len(b) = 16 THEN RecvmsgSize(RecvmsgMessage(b))
                        ELSE size
                  message == RecvmsgMessage(b)
                  r == RecvMatched(raise_on_error, message)
              IN  /\ received' = k
                  /\ inbuf' = SubSeq(inbuf, k + 1, Len(inbuf))
                  /\ UNCHANGED partial
                  /\ IF Len(b) < sz
                     THEN /\ buffer' = b
                          /\ size' = sz
                          /\ UNCHANGED <<pc, outcome, taken, skipped, _name>>
                     ELSE /\ taken' = taken + 1
                          /\ IF MatchRaises(message, header, body)
                             THEN /\ outcome' = Raised(op, "TypeError", <<>>,
                                                       taken + 1)
                                  /\ pc' = IF op = "connect" THEN "broken"
                                           ELSE "ready"
                                  /\ buffer' = <<>>
                                  /\ size' = 0
                                  /\ UNCHANGED <<skipped, _name>>
                             ELSE IF Match(message, header, body)
                             THEN /\ outcome' =
                                       IF r.kind = "return"
                                       THEN Returned(op, message, None,
                                                     taken + 1)
                                       ELSE Raised(op, r.exc, r.text,
                                                   taken + 1)
                                  /\ pc' = IF op = "connect" /\ r.kind = "raise"
                                           THEN "broken" ELSE "ready"
                                  /\ _name' =
                                       IF op = "connect" /\ r.kind = "return"
                                       THEN GetField(message, "destination")
                                       ELSE _name
                                  /\ buffer' = <<>>
                                  /\ size' = 0
                                  /\ UNCHANGED skipped
                             ELSE /\ skipped' = skipped \cup {taken + 1}
                                  /\ buffer' = <<>>
                                  /\ size' = 16
                                  /\ UNCHANGED <<pc, outcome, _name>>
    /\ UNCHANGED <<raise_on_error, _socket, _serial, byteorder, euid, op,
                   header, body, start, sock, wire, peerClosed, peerLine,
                   arrived, nops>>
    /\ UNCHANGED <<codecVars, objVars, threadVars>>

\* DBus.disconnect
Disconnect ==
    /\ pc \in {"ready", "broken"}
    /\ sock' = "closed"
    /\ _socket' = "None"
    /\ _serial' = NoSerial
    /\ _name' = None
    /\ pc' = "closed"
    /\ op' = "disconnect"
    /\ received' = -1
    /\ outcome' = Returned("disconnect", None, None, 0)
    /\ UNCHANGED <<raise_on_error, byteorder, euid, recvVars, wire, peerVars,
                   readVars, nops>>
    /\ UNCHANGED <<codecVars, objVars, threadVars>>

\* DBus.disconnect were it to leave the name as it is
DisconnectedKeepsName ==
    [sock |-> "closed", _socket |-> "None", _serial |-> NoSerial,
     _name |-> _name]

\* what DBus.disconnect leaves behind: the socket shut down and closed, the
\* attributes None
Disconnected ==
    [sock |-> "closed", _socket |-> "None", _serial |-> NoSerial,
     _name |-> None]

\* DBus.__exit__: the with block that connect() opened is left, after its
\* last operation returned or with the exception that operation raised;
\* the exception goes on to the caller when disconnect() has returned
Exit ==
    /\ pc = "ready"
    /\ sock' = Disconnected.sock
    /\ _socket' = Disconnected._socket
    /\ _serial' = Disconnected._serial
    /\ _name' = Disconnected._name
    /\ pc' = "closed"
    /\ op' = "exit"
    /\ received' = -1
    /\ outcome' = IF outcome.kind = "raise"
                  THEN Raised("exit", outcome.exc, outcome.text, 0)
                  ELSE Returned("exit", None, None, 0)
    /\ UNCHANGED <<raise_on_error, byteorder, euid, recvVars, wire, peerVars,
                   readVars, nops>>
    /\ UNCHANGED <<codecVars, objVars, threadVars>>

\* the serials of the method calls written to the socket that expect a
\* reply and have none yet
AwaitingReply ==
    {wire[i].last : i \in {j \in 1..Len(wire) :
                              /\ wire[j].kind = "msg"
                              /\ wire[j].data[2] = 1
                              /\ wire[j].data[3] % 2 = 0}}
        \ {arrived[i].fields.reply.v :
              i \in {j \in 1..Len(arrived) : arrived[j].type # 4}}


\* the bus answers the AUTH line
PeerLine ==
    /\ sock = "open"
    /\ ~peerClosed
    /\ peerLine = <<>>
    /\ Len(wire) = 2
    /\ \E line \in AuthReplies :
          /\ inbuf' = inbuf \o line \o CRLF
          /\ peerLine' = line
    /\ UNCHANGED <<connVars, pc, op, recvVars, received, outcome, sock, wire,
                   peerClosed, partial, arrived, readVars, nops>>
    /\ UNCHANGED <<codecVars, objVars, threadVars>>

\* the bus sends a message: a reply to a call it has got, or a signal
PeerMessage ==
    /\ sock = "open"
    /\ ~peerClosed
    /\ Len(wire) >= 4
    /\ nops + Len(arrived) < MaxEvents
    /\ \E t \in PeerSignals \cup UNION {PeerReplies(r) : r \in AwaitingReply} :
          /\ inbuf' = inbuf \o PeerBytes(t, Len(arrived) + 1)
          /\ arrived' = Append(arrived, t)
    /\ UNCHANGED <<connVars, pc, op, recvVars, received, outcome, sock, wire,
                   peerClosed, peerLine, partial, readVars, nops>>
    /\ UNCHANGED <<codecVars, objVars, threadVars>>

\* the bus goes away in the middle of a message
PeerBreaksOff ==
    /\ sock = "open"
    /\ ~peerClosed
    /\ Len(wire) >= 4
    /\ nops + Len(arrived) < MaxEvents
    /\ \E t \in PeerSignals, cut \in Cuts :
          /\ partial' = Slice(PeerBytes(t, Len(arrived) + 1), 0, cut)
          /\ inbuf' = inbuf \o partial'
    /\ peerClosed' = TRUE
    /\ UNCHANGED <<connVars, pc, op, recvVars, received, outcome, sock, wire,
                   peerLine, arrived, readVars, nops>>
    /\ UNCHANGED <<codecVars, objVars, threadVars>>

\* the bus closes its end of the socket
PeerClose ==
    /\ sock = "open"
    /\ ~peerClosed
    /\ peerClosed' = TRUE
    /\ UNCHANGED <<connVars, pc, op, recvVars, received, outcome, sock, wire, inbuf,
                   peerLine, partial, arrived, readVars, nops>>
    /\ UNCHANGED <<codecVars, objVars, threadVars>>

Next ==
    \/ Connect
    \/ Auth
    \/ Recvstr
    \/ Begin
    \/ Hello
    \/ Send
    \/ SendRepeatedly
    \/ Call
    \/ Recv
    \/ Recvmsg
    \/ Disconnect
    \/ Exit
    \/ PeerLine
    \/ PeerMessage
    \/ PeerBreaksOff
    \/ PeerClose

Spec == Init /\ [][Next]_vars

\* call() has written its message and waits in recv() for the reply
CallPending == op = "call" /\ pc = "recvmsg"

\* the bus does what a caller that waits counts on: it sends the reply to
\* the call, or it closes the socket (at once or in the middle of a message)
PeerAnswers ==
    /\ CallPending
    /\ \/ PeerClose
       \/ PeerBreaksOff
       \/ /\ PeerMessage
          /\ LET t == arrived'[Len(arrived')]
             IN  "reply" \in DOMAIN t.fields /\ t.fields.reply = header["reply"]

\* _recvmsg can take a turn: it is in socket.recv, and there are bytes to
\* read or the bus has closed.  This is the guard of Recvmsg, and every step
\* of Recvmsg changes the state, so it is ENABLED <<Recvmsg>>_vars.
RecvmsgEnabled == pc = "recvmsg" /\ (inbuf # <<>> \/ peerClosed)

\* The connection with a caller's thread that keeps running, so that
\* socket.recv returns once there are bytes or the bus has closed (weak
\* fairness of Recvmsg, written with its guard for ENABLED), and with a bus
\* that answers the call that is waiting (weak fairness of PeerAnswers).
LiveSpec ==
    /\ Init /\ [][Next]_vars
    /\ []<>(~RecvmsgEnabled) \/ []<><<Recvmsg>>_vars
    /\ WF_vars(PeerAnswers)

----------------------------------------------------------------------------
(***************************************************************************)
(* message.py: one DBusMessage object in the hands of its caller.  The     *)
(* object is its bytes (buf) and its __dict__ (byteorder, type, flags,     *)
(* version, serial, length).  The caller builds it from parts or gets it   *)
(* from the read path of a connection, and then assigns to its attributes, *)
(* tries the operations that the class rejects, appends to it with the     *)
(* extend() it inherits from bytearray (once), and matches it against      *)
(* patterns.  objOp is the last operation: its name, its argument, the     *)
(* exception it raised ("" for none), the value it returned, hist, the     *)
(* names of the assignments that have raised so far, with "extend" once    *)
(* extend() was called, and origin, where the object is from ("parts" or   *)
(* "read").                                                                *)
(***************************************************************************)

\* the variables of the connection while there is no connection
Unconnected ==
    /\ raise_on_error = FALSE
    /\ _socket = "None"
    /\ _serial = NoSerial
    /\ _name = None
    /\ byteorder = "little"
    /\ euid \in EUIDs
    /\ pc = "new"
    /\ op = "none"
    /\ header = NoHeader
    /\ body = <<>>
    /\ buffer = <<>>
    /\ size = 0
    /\ received = -1
    /\ outcome = Pending("none")
    /\ sock = "none"
    /\ wire = <<>>
    /\ inbuf = <<>>
    /\ peerClosed = FALSE
    /\ peerLine = <<>>
    /\ partial = <<>>
    /\ arrived = <<>>
    /\ taken = 0
    /\ start = 0
    /\ skipped = {}
    /\ nops = 0

\* __setattr__('type', value): the attribute first, then the byte, which
\* raises ValueError for a value that is no byte
AssignType(m, value) ==
    IF value \in 0..255 THEN [m |-> SetType(m, value), exc |-> ""]
    ELSE [m |-> [m EXCEPT !.type = value], exc |-> "ValueError"]

\* __setattr__('flags', value)
AssignFlags(m, value) ==
    IF value \in 0..255 THEN [m |-> SetFlags(m, value), exc |-> ""]
    ELSE [m |-> [m EXCEPT !.flags = value], exc |-> "ValueError"]

\* __setattr__('serial', value) for a value below 2^32
AssignSerial(m, value) == [m |-> SetSerial(m, value), exc |-> ""]

\* the body setter were it to leave the bytes 4..7 as they are
AssignBodyLengthUnwritten(m, value) ==
    LET p == m.length[1] + m.length[2] + m.length[3]
        signature == GetField(m, "signature")
        cut == [m EXCEPT !.buf = Slice(m.buf, 0, p)]
        r == Pack(m.byteorder, signature.v, value)
        l == Len(r.buf)
    IN  IF signature = None THEN [m |-> cut, exc |-> "TypeError"]
        ELSE IF r.exc # "" THEN [m |-> cut, exc |-> r.exc]
        ELSE [m |-> [cut EXCEPT
                        !.length = <<m.length[1], m.length[2], m.length[3], l>>,
                        !.buf = cut.buf \o r.buf],
              exc |-> ""]

\* the body setter were it to take a message without signature field for one
\* with the signature u
AssignBodyAnySignature(m, value) ==
    LET p == m.length[1] + m.length[2] + m.length[3]
        signature == IF GetField(m, "signature") = None THEN PyStr(<<117>>)
                     ELSE GetField(m, "signature")
        cut == [m EXCEPT !.buf = Slice(m.buf, 0, p)]
        r == Pack(m.byteorder, signature.v, value)
        l == Len(r.buf)
    IN  IF r.exc # "" THEN [m |-> cut, exc |-> r.exc]
        ELSE [m |-> [cut EXCEPT
                        !.length = <<m.length[1], m.length[2], m.length[3], l>>,
                        !.buf = Slice(cut.buf, 0, 4)
                                    \o IntToBytes(l, 4, m.byteorder)
                                    \o Slice(cut.buf, 8, p) \o r.buf],
              exc |-> ""]

\* __setattr__('body', value): del(self[p:]), then the call of self.pack,
\* which raises TypeError for the signature None and whatever the
\* marshaller raises, then the length and the bytes 4..7
AssignBody(m, value) ==
    LET p == m.length[1] + m.length[2] + m.length[3]
        signature == GetField(m, "signature")
        cut == [m EXCEPT !.buf = Slice(m.buf, 0, p)]
        r == Pack(m.byteorder, signature.v, value)
        l == Len(r.buf)
    IN  IF signature = None THEN [m |-> cut, exc |-> "TypeError"]
        ELSE IF r.exc # "" THEN [m |-> cut, exc |-> r.exc]
        ELSE [m |-> [cut EXCEPT
                        !.length = <<m.length[1], m.length[2], m.length[3], l>>,
                        !.buf = Slice(cut.buf, 0, 4)
                                    \o IntToBytes(l, 4, m.byteorder)
                                    \o Slice(cut.buf, 8, p) \o r.buf],
              exc |-> ""]

\* DBusMessage.body with what it raises
BodyResult(m) ==
    LET signature == GetField(m, "signature")
        p == m.length[1] + m.length[2] + m.length[3]
        r == Unpack(m.byteorder, signature.v, Slice(m.buf, p, Len(m.buf)))
    IN  IF m.length[4] = 0 THEN [exc |-> "", value |-> None]
        ELSE IF signature = None THEN [exc |-> "TypeError", value |-> None]
        ELSE IF r.exc # "" THEN [exc |-> r.exc, value |-> None]
        ELSE [exc |-> "", value |-> PyTuple(r.value.v)]

\* DBusMessage.match(header, body) with what it raises: iter(self.body)
\* raises TypeError for the body None
MatchCall(m, pattern) ==
    IF ~HeaderMatches(m, pattern.header)
    THEN [exc |-> "", value |-> PyBool(FALSE)]
    ELSE IF pattern.body = <<>> THEN [exc |-> "", value |-> PyBool(TRUE)]
    ELSE Bind(BodyResult(m), LAMBDA b :
      IF b.exc # "" THEN [exc |-> b.exc, value |-> None]
      ELSE IF b.value = None THEN [exc |-> "TypeError", value |-> None]
      ELSE [exc |-> "",
            value |-> PyBool(\A i \in 1..Len(pattern.body) :
                LET v1 == IF i <= Len(b.value.v) THEN b.value.v[i] ELSE None
                IN  ~(pattern.body[i] # None /\ pattern.body[i] # v1))])

\* the header fields the caller builds messages with: without a signature,
\* with the signature y and with the signature s
ObjFields ==
    {[path |-> PyStr(<<47>>), member |-> PyStr(<<77>>)],
     [path |-> PyStr(<<47>>), member |-> PyStr(<<77>>),
      signature |-> PyStr(<<121>>)],
     [path |-> PyStr(<<47>>), member |-> PyStr(<<77>>),
      signature |-> PyStr(<<115>>)]}

\* DBusMessage(byteorder=, type=, **fields) of the caller
ObjFromParts ==
    {MessageFromParts(bo, type, 0, U32(0), fields) :
        bo \in {"little", "big"}, type \in {4}, fields \in ObjFields}

\* the messages DBus._recvmsg returns for what the bus sends
ObjFromRead ==
    {RecvmsgMessage(PeerBytes(t, 1)) : t \in PeerReplies(U32(1)) \cup PeerSignals}

\* values the caller assigns
TypeValues == {2, 256}
FlagsValues == {1, 256}
SerialValues == {<<1, 2, 3, 4>>}

\* tuples the caller assigns to body: values of the type that the signature
\* of the message names, in range and out of range, too few and too many
BodyValues(signature) ==
    CASE signature = PyStr(<<121>>) ->
             {<<>>, <<PyInt(U32(1))>>, <<PyInt(U32(256))>>,
              <<PyInt(U32(1)), PyInt(U32(2))>>}
      [] signature = PyStr(<<115>>) -> {<<>>, <<PyStr(<<120>>)>>}
      [] OTHER -> {<<>>, <<PyInt(U32(1))>>}

\* attributes without a setter that the caller assigns to
OtherAttrs == {"path", "foo"}

\* patterns the caller matches with
ObjPatterns ==
    RecvPatterns \cup
        {[header |-> NoHeader, body |-> <<None>>],
         [header |-> NoHeader, body |-> <<PyInt(U32(1))>>],
         [header |-> [NoHeader EXCEPT !["member"] = PyStr(<<77>>)],
          body |-> <<None, PyInt(U32(2))>>]}

ObjOp(name, arg, exc, result, hist, origin) ==
    [name |-> name, arg |-> arg, exc |-> exc, result |-> result,
     hist |-> hist, origin |-> origin]

\* the record of one more operation: an assignment that raised and the
\* call of extend() enter hist
Recorded(name, arg, exc, result) ==
    ObjOp(name, arg, exc, result,
          IF name = "extend"
             \/ (exc # "" /\ name \in {"type", "flags", "serial", "body"})
          THEN objOp.hist \cup {name} ELSE objOp.hist,
          objOp.origin)

\* what an operation on the object leaves alone
objFrame ==
    <<connVars, pc, op, recvVars, received, outcome, sock, wire, peerVars,
      readVars, nops, codecVars, threadVars>>

ObjInit ==
    /\ Unconnected
    /\ input = Idle /\ packed = Idle /\ unpacked = Idle
    /\ pack = Idle /\ unpack = Idle /\ threads = Idle
    /\ \/ /\ obj \in ObjFromParts
          /\ objOp = ObjOp("init", None, "", None, {}, "parts")
       \/ /\ obj \in ObjFromRead
          /\ objOp = ObjOp("init", None, "", None, {}, "read")
    /\ objBefore = obj

SetattrType ==
    \E value \in TypeValues : \E r \in {AssignType(obj, value)} :
        /\ obj' = r.m
        /\ objBefore' = obj
        /\ objOp' = Recorded("type", PyInt(U32(value)), r.exc, None)
        /\ UNCHANGED objFrame

SetattrFlags ==
    \E value \in FlagsValues : \E r \in {AssignFlags(obj, value)} :
        /\ obj' = r.m
        /\ objBefore' = obj
        /\ objOp' = Recorded("flags", PyInt(U32(value)), r.exc, None)
        /\ UNCHANGED objFrame

SetattrSerial ==
    \E value \in SerialValues : \E r \in {AssignSerial(obj, value)} :
        /\ obj' = r.m
        /\ objBefore' = obj
        /\ objOp' = Recorded("serial", PyInt(value), r.exc, None)
        /\ UNCHANGED objFrame

SetattrBody ==
    \E value \in BodyValues(GetField(obj, "signature")) :
      \E r \in {AssignBody(obj, value)} :
        /\ obj' = r.m
        /\ objBefore' = obj
        /\ objOp' = Recorded("body", PyTuple(value), r.exc, None)
        /\ UNCHANGED objFrame

\* __setattr__ of any other attribute raises AttributeError
SetattrOther ==
    \E attr \in OtherAttrs :
        /\ objBefore' = obj
        /\ objOp' = Recorded(attr, None, "AttributeError", None)
        /\ UNCHANGED <<obj, objFrame>>

\* __setitem__ raises TypeError
Setitem ==
    /\ objBefore' = obj
    /\ objOp' = Recorded("setitem", None, "TypeError", None)
    /\ UNCHANGED <<obj, objFrame>>

\* __iadd__ raises TypeError
Iadd ==
    /\ objBefore' = obj
    /\ objOp' = Recorded("iadd", None, "TypeError", None)
    /\ UNCHANGED <<obj, objFrame>>

\* __imul__ raises TypeError
Imul ==
    /\ objBefore' = obj
    /\ objOp' = Recorded("imul", None, "TypeError", None)
    /\ UNCHANGED <<obj, objFrame>>

\* bytearray.extend, which the class inherits as it is
Extend ==
    /\ "extend" \notin objOp.hist
    /\ obj' = [obj EXCEPT !.buf = @ \o <<120>>]
    /\ objBefore' = obj
    /\ objOp' = Recorded("extend", PyStr(<<120>>), "", None)
    /\ UNCHANGED objFrame

\* match(header, body)
MatchOp ==
    \E pattern \in ObjPatterns : \E r \in {MatchCall(obj, pattern)} :
        /\ objBefore' = obj
        /\ objOp' = Recorded("match", PyTuple(<<pattern>>), r.exc, r.value)
        /\ UNCHANGED <<obj, objFrame>>

ObjNext ==
    \/ SetattrType
    \/ SetattrFlags
    \/ SetattrSerial
    \/ SetattrBody
    \/ SetattrOther
    \/ Setitem
    \/ Iadd
    \/ Imul
    \/ Extend
    \/ MatchOp

ObjSpec == ObjInit /\ [][ObjNext]_vars

----------------------------------------------------------------------------
(***************************************************************************)
(* marshalling.py: one call of the codec by its caller.  The caller passes *)
(* a byte order, a signature and values to DBusMarshal.__call__ and then   *)
(* what it returned to DBusUnmarshal.__call__ with the same byte order and *)
(* signature; or it passes header fields as keyword arguments to           *)
(* DBusMarshal.fields and what it returned to DBusUnmarshal.fields.        *)
(* input.class says what the caller passes: "ok" for a well-formed         *)
(* signature with the values it describes, "short" for fewer values than   *)
(* the signature has complete types, "range" for an integer out of the     *)
(* range of its type.                                                      *)
(***************************************************************************)

CodecCall(signature, data, class) ==
    [signature |-> signature, data |-> data, class |-> class]

\* y 7, b True, q 258, n 258, i 5, x 5, u 1, t 1, d 1.5, s 'x', o '/', g 'u'
BasicCalls ==
    {CodecCall(<<121>>, <<PyInt(U32(7))>>, "ok"),
     CodecCall(<<98>>, <<PyBool(TRUE)>>, "ok"),
     CodecCall(<<113>>, <<PyInt(U32(258))>>, "ok"),
     CodecCall(<<110>>, <<PyInt(U32(258))>>, "ok"),
     CodecCall(<<105>>, <<PyInt(U32(5))>>, "ok"),
     CodecCall(<<120>>, <<PyInt(U32(5))>>, "ok"),
     CodecCall(<<117>>, <<PyInt(U32(1))>>, "ok"),
     CodecCall(<<116>>, <<PyInt(U32(1))>>, "ok"),
     CodecCall(<<100>>, <<PyFloat(<<63, 248, 0, 0, 0, 0, 0, 0>>)>>, "ok"),
     CodecCall(<<115>>, <<PyStr(<<120>>)>>, "ok"),
     CodecCall(<<111>>, <<PyStr(<<47>>)>>, "ok"),
     CodecCall(<<103>>, <<PyStr(<<117>>)>>, "ok"),
     \* yu 1, 2; yt 1, 2; ys 1, 'ab'
     CodecCall(<<121, 117>>, <<PyInt(U32(1)), PyInt(U32(2))>>, "ok"),
     CodecCall(<<121, 116>>, <<PyInt(U32(1)), PyInt(U32(2))>>, "ok"),
     CodecCall(<<121, 115>>, <<PyInt(U32(1)), PyStr(<<97, 98>>)>>, "ok")}

\* au [1, 2]; au []; ay [1, 2]; at [1]; at [1, 2]; at []; ad [1.5];
\* uat 9, [1]; yat 9, [1, 2]; aau [[1], [2, 3]]; aau []
ArrayCalls ==
    {CodecCall(<<97, 117>>, <<PyList(<<PyInt(U32(1)), PyInt(U32(2))>>)>>, "ok"),
     CodecCall(<<97, 117>>, <<PyList(<<>>)>>, "ok"),
     CodecCall(<<97, 121>>, <<PyList(<<PyInt(U32(1)), PyInt(U32(2))>>)>>, "ok"),
     CodecCall(<<97, 116>>, <<PyList(<<PyInt(U32(1))>>)>>, "ok"),
     CodecCall(<<97, 116>>, <<PyList(<<PyInt(U32(1)), PyInt(U32(2))>>)>>, "ok"),
     CodecCall(<<97, 116>>, <<PyList(<<>>)>>, "ok"),
     CodecCall(<<97, 100>>,
          <<PyList(<<PyFloat(<<63, 248, 0, 0, 0, 0, 0, 0>>)>>)>>, "ok"),
     CodecCall(<<117, 97, 116>>, <<PyInt(U32(9)), PyList(<<PyInt(U32(1))>>)>>, "ok"),
     CodecCall(<<121, 97, 116>>,
          <<PyInt(U32(9)), PyList(<<PyInt(U32(1)), PyInt(U32(2))>>)>>, "ok"),
     CodecCall(<<97, 97, 117>>,
          <<PyList(<<PyList(<<PyInt(U32(1))>>),
                     PyList(<<PyInt(U32(2)), PyInt(U32(3))>>)>>)>>, "ok"),
     CodecCall(<<97, 97, 117>>, <<PyList(<<>>)>>, "ok")}

\* (yu)s (1, 2), 'x'; a(yu) [(1, 2)]; a(yu) [(1, 2), (3, 4)]; a(uu) [];
\* v ('u', 5); v ('s', 'x'); a{su} [{'a': 1}]; a{su} [{'a': 1}, {'b': 2}];
\* a{su} []
ContainerCalls ==
    {CodecCall(<<40, 121, 117, 41, 115>>,
          <<PyTuple(<<PyInt(U32(1)), PyInt(U32(2))>>), PyStr(<<120>>)>>, "ok"),
     CodecCall(<<97, 40, 121, 117, 41>>,
          <<PyList(<<PyTuple(<<PyInt(U32(1)), PyInt(U32(2))>>)>>)>>, "ok"),
     CodecCall(<<97, 40, 121, 117, 41>>,
          <<PyList(<<PyTuple(<<PyInt(U32(1)), PyInt(U32(2))>>),
                     PyTuple(<<PyInt(U32(3)), PyInt(U32(4))>>)>>)>>, "ok"),
     CodecCall(<<97, 40, 117, 117, 41>>, <<PyList(<<>>)>>, "ok"),
     CodecCall(<<118>>, <<PyTuple(<<PyStr(<<117>>), PyInt(U32(5))>>)>>, "ok"),
     CodecCall(<<118>>, <<PyTuple(<<PyStr(<<115>>), PyStr(<<120>>)>>)>>, "ok"),
     CodecCall(<<97, 123, 115, 117, 125>>,
          <<PyList(<<PyDict(<<<<PyStr(<<97>>), PyInt(U32(1))>>>>)>>)>>, "ok"),
     CodecCall(<<97, 123, 115, 117, 125>>,
          <<PyList(<<PyDict(<<<<PyStr(<<97>>), PyInt(U32(1))>>>>),
                     PyDict(<<<<PyStr(<<98>>), PyInt(U32(2))>>>>)>>)>>, "ok"),
     CodecCall(<<97, 123, 115, 117, 125>>, <<PyList(<<>>)>>, "ok")}

\* uu 1; su 'x'; yyy 1, 2; u with no value; (uu) (1,)
ShortCalls ==
    {CodecCall(<<117, 117>>, <<PyInt(U32(1))>>, "short"),
     CodecCall(<<115, 117>>, <<PyStr(<<120>>)>>, "short"),
     CodecCall(<<121, 121, 121>>, <<PyInt(U32(1)), PyInt(U32(2))>>, "short"),
     CodecCall(<<117>>, <<>>, "short"),
     CodecCall(<<40, 117, 117, 41>>, <<PyTuple(<<PyInt(U32(1))>>)>>, "short")}

\* y 256; q 65536; n 40000; i 2^31; ay [1, 256]
RangeCalls ==
    {CodecCall(<<121>>, <<PyInt(U32(256))>>, "range"),
     CodecCall(<<113>>, <<PyInt(U32(65536))>>, "range"),
     CodecCall(<<110>>, <<PyInt(U32(40000))>>, "range"),
     CodecCall(<<105>>, <<PyInt(<<128, 0, 0, 0>>)>>, "range"),
     CodecCall(<<97, 121>>, <<PyList(<<PyInt(U32(1)), PyInt(U32(256))>>)>>, "range")}

\* an array and the value after it: auy [1, 2], 7; a(yy)u [], 256;
\* a(yy)u [(1, 2)], 256; aauy [], 7; aauy [[1]], 7
FollowedCalls ==
    {CodecCall(<<97, 117, 121>>,
          <<PyList(<<PyInt(U32(1)), PyInt(U32(2))>>), PyInt(U32(7))>>, "ok"),
     CodecCall(<<97, 40, 121, 121, 41, 117>>,
          <<PyList(<<>>), PyInt(U32(256))>>, "ok"),
     CodecCall(<<97, 40, 121, 121, 41, 117>>,
          <<PyList(<<PyTuple(<<PyInt(U32(1)), PyInt(U32(2))>>)>>),
            PyInt(U32(256))>>, "ok"),
     CodecCall(<<97, 97, 117, 121>>, <<PyList(<<>>), PyInt(U32(7))>>, "ok"),
     CodecCall(<<97, 97, 117, 121>>,
          <<PyList(<<PyList(<<PyInt(U32(1))>>)>>), PyInt(U32(7))>>, "ok")}

CodecCalls ==
    BasicCalls \cup ArrayCalls \cup ContainerCalls \cup ShortCalls
        \cup RangeCalls \cup FollowedCalls

\* a legal value for every header field: '/', 'a.b', 'M', 'E', 7, ':1',
\* ':2', 'u', 0
FieldValue ==
    [path |-> PyStr(<<47>>), interface |-> PyStr(<<97, 46, 98>>),
     member |-> PyStr(<<77>>), error |-> PyStr(<<69>>),
     reply |-> PyInt(U32(7)), destination |-> PyStr(<<58, 49>>),
     sender |-> PyStr(<<58, 50>>), signature |-> PyStr(<<117>>),
     unixfds |-> PyInt(U32(0))]

\* the keyword arguments of a call, in the order the caller wrote them: the
\* fields whose indices are in F, in ascending or in descending order
RECURSIVE Keywords(_, _, _)
Keywords(F, ascending, i) ==
    IF i > Len(HEADER_FIELDS) THEN <<>>
    ELSE LET rest == Keywords(F, ascending, i + 1)
             this == IF i \in F
                     THEN <<<<HEADER_FIELDS[i], FieldValue[HEADER_FIELDS[i]]>>>>
                     ELSE <<>>
         IN  IF ascending THEN this \o rest ELSE rest \o this

\* **fields: the dict of the keyword arguments
Kwargs(pairs) ==
    [k \in {pairs[i][1] : i \in 1..Len(pairs)} |->
        (CHOOSE p \in {pairs[i] : i \in 1..Len(pairs)} : p[1] = k)[2]]

CodecInputs ==
    {[kind |-> "call", byteorder |-> bo, signature |-> c.signature,
      data |-> c.data, class |-> c.class, F |-> {}] :
        bo \in {"little", "big"}, c \in CodecCalls}
    \cup
    {[kind |-> "fields", byteorder |-> bo, signature |-> <<>>,
      data |-> Keywords(F, ascending, 1), class |-> "ok", F |-> F] :
        bo \in {"little", "big"}, F \in SUBSET (1..Len(HEADER_FIELDS)),
        ascending \in BOOLEAN}

codecFrame ==
    <<connVars, pc, op, recvVars, received, outcome, sock, wire, peerVars,
      readVars, nops, objVars, threadVars>>

CodecInit ==
    /\ Unconnected
    /\ obj = Idle /\ objBefore = Idle /\ objOp = Idle
    /\ pack = Idle /\ unpack = Idle /\ threads = Idle
    /\ input \in CodecInputs
    /\ packed = Idle
    /\ unpacked = Idle

\* DBusMarshal.__call__(byteorder, signature, *data)
PackCall ==
    /\ input.kind = "call" /\ packed = Idle
    /\ \E r \in {Pack(input.byteorder, input.signature, input.data)} :
          packed' = [kind |-> "packed", exc |-> r.exc,
                     buf |-> IF r.exc = "" THEN r.buf ELSE <<>>]
    /\ UNCHANGED <<input, unpacked, codecFrame>>

\* DBusUnmarshal.__call__(byteorder, signature, data) on what pack returned
UnpackCall ==
    /\ input.kind = "call" /\ packed # Idle /\ unpacked = Idle
    /\ packed.exc = ""
    /\ \E r \in {Unpack(input.byteorder, input.signature, packed.buf)} :
          unpacked' = [kind |-> "unpacked", exc |-> r.exc,
                       value |-> IF r.exc = "" THEN r.value ELSE None]
    /\ UNCHANGED <<input, packed, codecFrame>>

\* DBusMarshal.fields(byteorder, **fields)
PackFields ==
    /\ input.kind = "fields" /\ packed = Idle
    /\ packed' = [kind |-> "packed", exc |-> "",
                  buf |-> MarshalFields(input.byteorder, Kwargs(input.data))]
    /\ UNCHANGED <<input, unpacked, codecFrame>>

\* DBusUnmarshal.fields(byteorder, buffer) on what fields returned
UnpackFields ==
    /\ input.kind = "fields" /\ packed # Idle /\ unpacked = Idle
    /\ unpacked' = [kind |-> "unpacked", exc |-> "",
                    value |-> UnmarshalFields(input.byteorder, packed.buf)]
    /\ UNCHANGED <<input, packed, codecFrame>>

CodecNext ==
    \/ PackCall
    \/ UnpackCall
    \/ PackFields
    \/ UnpackFields

CodecSpec == CodecInit /\ [][CodecNext]_vars

----------------------------------------------------------------------------
(***************************************************************************)
(* message.py with several threads.  Every thread has a message of its     *)
(* own and assigns to its body or reads its body once.  pack and unpack    *)
(* are attributes of the class DBusMessage: all messages call the same     *)
(* DBusMarshal and the same DBusUnmarshal object, whose __call__ keeps     *)
(* byteorder, signature and the methods of its BytesIO in attributes of    *)
(* that object.  A shared object is its byteorder, its signature stack and *)
(* b, the thread whose BytesIO its write, tell, seek or read belong to.    *)
(* The interpreter switches threads between bytecodes; a step here is one  *)
(* statement of __call__, or one call of an item's marshaller, so every    *)
(* interleaving of the steps is one the interpreter can produce.           *)
(***************************************************************************)

Threads == {1, 2}

\* the bodies the threads work with: 'yy' (1, 2) little-endian and 'u' (5,)
\* big-endian
ThreadBodies ==
    {[byteorder |-> "little", signature |-> <<121, 121>>,
      value |-> <<PyInt(U32(1)), PyInt(U32(2))>>],
     [byteorder |-> "big", signature |-> <<117>>,
      value |-> <<PyInt(U32(5))>>]}

\* DBusMessage(byteorder=, type=4, path='/', member='M', signature=)
ThreadMessage(c) ==
    MessageFromParts(c.byteorder, 4, 0, U32(0),
                     [path |-> PyStr(<<47>>), member |-> PyStr(<<77>>),
                      signature |-> PyStr(c.signature)])

\* a thread about to run m.body = value ("assign") or m.body ("decode", on
\* a message that got its body before the threads started)
ThreadStart(o, c) ==
    LET m == IF o = "assign" THEN ThreadMessage(c)
             ELSE AssignBody(ThreadMessage(c), c.value).m
    IN  [op |-> o, m |-> m, before |-> m, value |-> c.value, pc |-> "start",
         i |-> 1, code |-> 0, b |-> [buf |-> <<>>, pos |-> 0], l |-> <<>>,
         exc |-> "", result |-> None]

ThreadStarts ==
    {ThreadStart(o, c) : o \in {"assign", "decode"}, c \in ThreadBodies}

\* the object a thread's operation calls: self.pack or self.unpack
Shared(t) == IF threads[t].op = "assign" THEN pack ELSE unpack

\* what a step of the threads leaves alone
threadFrame ==
    <<connVars, pc, op, recvVars, received, outcome, sock, wire, peerVars,
      readVars, nops, codecVars, objVars>>

ThreadInit ==
    /\ Unconnected
    /\ input = Idle /\ packed = Idle /\ unpacked = Idle
    /\ obj = Idle /\ objBefore = Idle /\ objOp = Idle
    /\ pack = [byteorder |-> "", signature |-> <<>>, b |-> 0]
    /\ unpack = [byteorder |-> "", signature |-> <<>>, b |-> 0]
    /\ threads \in [Threads -> ThreadStarts]

\* __setattr__('body'): p = sum(self.length[:3]); del(self[p:]), and the
\* arguments of self.pack; the body property: the arguments of self.unpack
BodyStart(t) ==
    LET th == threads[t]
        p == th.m.length[1] + th.m.length[2] + th.m.length[3]
    IN  /\ th.pc = "start"
        /\ threads' =
             [threads EXCEPT ![t].pc = "byteorder",
                 ![t].m.buf = IF th.op = "assign" THEN Slice(@, 0, p) ELSE @]
        /\ UNCHANGED <<pack, unpack, threadFrame>>

\* __call__: self.byteorder = byteorder
CallByteorder(t) ==
    LET th == threads[t]
    IN  /\ th.pc = "byteorder"
        /\ IF th.op = "assign"
           THEN /\ pack' = [pack EXCEPT !.byteorder = th.m.byteorder]
                /\ UNCHANGED unpack
           ELSE /\ unpack' = [unpack EXCEPT !.byteorder = th.m.byteorder]
                /\ UNCHANGED pack
        /\ threads' = [threads EXCEPT ![t].pc = "signature"]
        /\ UNCHANGED threadFrame

\* __call__: self.signature = bytearray(signature[::-1], 'ascii')
CallSignature(t) ==
    LET th == threads[t]
        signature == GetField(th.m, "signature").v
    IN  /\ th.pc = "signature"
        /\ IF th.op = "assign"
           THEN /\ pack' = [pack EXCEPT !.signature = signature]
                /\ UNCHANGED unpack
           ELSE /\ unpack' = [unpack EXCEPT !.signature = signature]
                /\ UNCHANGED pack
        /\ threads' = [threads EXCEPT ![t].pc = "io"]
        /\ UNCHANGED threadFrame

\* __call__: b = BytesIO() or BytesIO(data), and its methods into self
CallIO(t) ==
    LET th == threads[t]
        p == th.m.length[1] + th.m.length[2] + th.m.length[3]
    IN  /\ th.pc = "io"
        /\ IF th.op = "assign"
           THEN /\ pack' = [pack EXCEPT !.b = t]
                /\ UNCHANGED unpack
           ELSE /\ unpack' = [unpack EXCEPT !.b = t]
                /\ UNCHANGED pack
        /\ threads' =
             [threads EXCEPT ![t].pc = "loop",
                 ![t].b = [buf |-> IF th.op = "assign" THEN <<>>
                                   ELSE Slice(th.m.buf, p, Len(th.m.buf)),
                           pos |-> 0]]
        /\ UNCHANGED threadFrame

\* __call__: the head of the loop and self.signature.pop().  The marshaller
\* loops over its data, the unmarshaller until the stack is empty.
CallPop(t) ==
    LET th == threads[t]
        stack == Shared(t).signature
        over == IF th.op = "assign" THEN th.i > Len(th.value)
                ELSE stack = <<>>
        exc == IF stack = <<>> THEN "IndexError"
               ELSE IF Head(stack) \notin SIGNATURES THEN "KeyError"
               ELSE ""
    IN  /\ th.pc = "loop"
        /\ threads' =
             [threads EXCEPT
                 ![t].pc = IF over THEN "return"
                           ELSE IF exc # "" THEN "raised" ELSE "item",
                 ![t].exc = IF over THEN "" ELSE exc,
                 ![t].code = IF over \/ stack = <<>> THEN @ ELSE Head(stack)]
        /\ IF over \/ stack = <<>> THEN UNCHANGED <<pack, unpack>>
           ELSE IF th.op = "assign"
           THEN /\ pack' = [pack EXCEPT !.signature = Tail(@)]
                /\ UNCHANGED unpack
           ELSE /\ unpack' = [unpack EXCEPT !.signature = Tail(@)]
                /\ UNCHANGED pack
        /\ UNCHANGED threadFrame

\* __call__: the marshaller called with the item: it works with
\* self.byteorder and self.signature and writes through self.write
MarshalItemCall(t) ==
    LET th == threads[t]
    IN  /\ th.pc = "item" /\ th.op = "assign"
        /\ \E r \in {PackItem(th.code, pack.byteorder, th.value[th.i],
                              [sig |-> pack.signature,
                               buf |-> threads[pack.b].b.buf, exc |-> ""])} :
              /\ pack' = [pack EXCEPT !.signature = r.sig]
              /\ threads' =
                   [threads EXCEPT
                       ![pack.b].b.buf = r.buf,
                       ![t].i = @ + 1,
                       ![t].exc = r.exc,
                       ![t].pc = IF r.exc = "" THEN "loop" ELSE "raised"]
        /\ UNCHANGED <<unpack, threadFrame>>

\* __call__: l.append of what the unmarshaller returns: it works with
\* self.byteorder and self.signature and reads through self.read
UnmarshalItemCall(t) ==
    LET th == threads[t]
    IN  /\ th.pc = "item" /\ th.op = "decode"
        /\ \E r \in {UnpackItem(th.code, unpack.byteorder,
                                threads[unpack.b].b.buf,
                                [sig |-> unpack.signature,
                                 pos |-> threads[unpack.b].b.pos,
                                 exc |-> "", value |-> None])} :
              /\ unpack' = [unpack EXCEPT !.signature = r.sig]
              /\ threads' =
                   [threads EXCEPT
                       ![unpack.b].b.pos = r.pos,
                       ![t].l = IF r.exc = "" THEN Append(@, r.value) ELSE @,
                       ![t].exc = r.exc,
                       ![t].pc = IF r.exc = "" THEN "loop" ELSE "raised"]
        /\ UNCHANGED <<pack, threadFrame>>

\* __call__ returns b.getvalue() and __setattr__ extends the message with it
\* and writes the length; or __call__ returns l and body its tuple
BodyReturn(t) ==
    LET th == threads[t]
        p == th.m.length[1] + th.m.length[2] + th.m.length[3]
        l == Len(th.b.buf)
    IN  /\ th.pc = "return"
        /\ threads' =
             IF th.op = "assign"
             THEN [threads EXCEPT
                      ![t].pc = "done",
                      ![t].result = th.b.buf,
                      ![t].m.length = <<@[1], @[2], @[3], l>>,
                      ![t].m.buf = Slice(@, 0, 4)
                                     \o IntToBytes(l, 4, th.m.byteorder)
                                     \o Slice(@, 8, p) \o th.b.buf]
             ELSE [threads EXCEPT ![t].pc = "done",
                                  ![t].result = PyTuple(th.l)]
        /\ UNCHANGED <<pack, unpack, threadFrame>>

ThreadNext ==
    \E t \in Threads :
        \/ BodyStart(t)
        \/ CallByteorder(t)
        \/ CallSignature(t)
        \/ CallIO(t)
        \/ CallPop(t)
        \/ MarshalItemCall(t)
        \/ UnmarshalItemCall(t)
        \/ BodyReturn(t)

ThreadSpec == ThreadInit /\ [][ThreadNext]_vars

----------------------------------------------------------------------------
(* What the bus sent and what was written, read off the bytes *)

\* the n-th message of the bus holds the header field reply with the value r
HasReply(t, r) == "reply" \in DOMAIN t.fields /\ t.fields.reply = PyInt(r)

\* the header of the n-th message of the bus, as the bus meant it
SentHeader(t, n) ==
    [k \in HeaderKeys |->
        CASE k = "type" -> PyInt(U32(t.type))
          [] k = "flags" -> PyInt(U32(0))
          [] k = "serial" -> PyInt(U32(n))
          [] OTHER -> DictGet(t.fields, k)]

\* the n-th message of the bus satisfies the pattern (header, body)
SentMatches(t, n, h, b) ==
    /\ \A k \in HeaderKeys : h[k] # None => SentHeader(t, n)[k] = h[k]
    /\ \A i \in 1..Len(b) :
          b[i] = None \/ (i <= Len(t.body) /\ t.body[i] = b[i])

\* the binary messages written to the socket, in order
Written == SelectSeq(wire, LAMBDA e : e.kind # "str")

\* the serial in the bytes of a written message (of a run: its first, last)
FirstSerial(e) ==
    IF e.kind = "msg"
    THEN BytesToU32(SubSeq(e.data, 9, 12),
                    IF e.data[1] = 108 THEN "little" ELSE "big")
    ELSE e.first

LastSerial(e) == IF e.kind = "msg" THEN FirstSerial(e) ELSE e.last

\* the bytes of the messages j..Len(arrived) of the bus
RECURSIVE SentFrom(_)
SentFrom(j) ==
    IF j > Len(arrived) THEN <<>>
    ELSE PeerBytes(arrived[j], j) \o SentFrom(j + 1)

----------------------------------------------------------------------------
(* Claims *)

\* C1: when call() (of the caller, or of hello() in connect()) has returned,
\* the message it returned is the first one the bus sent whose reply field is
\* the serial S of the call written last; it is the message read last, byte
\* for byte, and every message read by the call before it has no reply = S
\* and was skipped.
C1_ReplyCorrelation ==
    (outcome.op \in {"call", "connect"} /\ outcome.kind = "return"
     /\ outcome.idx > 0) =>
        LET S == LastSerial(Written[Len(Written)])
            i == outcome.idx
        IN  /\ start < i /\ i = taken /\ i <= Len(arrived)
            /\ HasReply(arrived[i], S)
            /\ GetField(outcome.msg, "reply") = PyInt(S)
            /\ outcome.msg.buf = PeerBytes(arrived[i], i)
            /\ \A j \in 1..(i - 1) : ~HasReply(arrived[j], S)
            /\ \A j \in (start + 1)..(i - 1) : j \in skipped

\* a call has returned the method return sent for it after a signal that
\* came before it
C1_Witness ==
    /\ outcome.op = "call" /\ outcome.kind = "return"
    /\ outcome.msg.type = 2
    /\ \E j \in (start + 1)..(outcome.idx - 1) : arrived[j].type = 4

\* C2: a message recv() (or call()) returns satisfies the pattern it was
\* given; it is the message read last, so none that was read before, and
\* none that was dropped, is ever returned; and every message the operation
\* read before it was dropped.
C2_RecvOnlyMatching ==
    /\ (outcome.kind = "return" /\ outcome.idx > 0) =>
          /\ SentMatches(arrived[outcome.idx], outcome.idx, header, body)
          /\ outcome.msg.buf = PeerBytes(arrived[outcome.idx], outcome.idx)
          /\ outcome.idx = taken /\ outcome.idx > start
          /\ \A j \in (start + 1)..(outcome.idx - 1) : j \in skipped
    /\ outcome.idx \notin skipped
    /\ \A j \in skipped : j <= taken
    /\ pc = "recvmsg" => \A j \in (start + 1)..taken : j \in skipped

\* recv() for signals has returned one after it dropped the reply to an
\* earlier send()
C2_Witness ==
    /\ outcome.op = "recv" /\ outcome.kind = "return"
    /\ header["type"] = PyInt(U32(4))
    /\ \E j \in skipped : j > start /\ arrived[j].type = 2

\* C3: the serials in the messages written to the socket of a connection are
\* strictly increasing, the first is 1 and none is 0; send() returns the
\* serial it wrote.
C3_SerialMonotonicity ==
    /\ \A i \in 1..Len(Written) :
          /\ FirstSerial(Written[i]) # U32(0)
          /\ ~U32Less(LastSerial(Written[i]), FirstSerial(Written[i]))
    /\ Written # <<>> => FirstSerial(Written[1]) = U32(1)
    /\ \A i \in 1..(Len(Written) - 1) :
          U32Less(LastSerial(Written[i]), FirstSerial(Written[i + 1]))
    /\ (outcome.op = "send" /\ outcome.kind = "return") =>
          outcome.value = PyInt(LastSerial(Written[Len(Written)]))

\* Hello and three more messages were written
C3_Witness == Len(Written) >= 4 /\ \A i \in 1..Len(Written) : Written[i].kind = "msg"

\* C4: send() never fails for want of a serial: the send() after the one
\* that was given 2^32-1 succeeds, the counter having started again.
C4_SerialWraps ==
    (outcome.op \in {"send", "call"} /\ Written # <<>>
     /\ LastSerial(Written[Len(Written)]) = U32Max
     /\ outcome.value # PyInt(U32Max)) =>
        outcome.exc # "StopIteration"

\* C5: the counter advances only when a message is written: the serial the
\* next send() will use is the one after the serial of the message written
\* last (1 when none was written).
C5_CounterAdvancesOnSuccess ==
    (_serial.set /\ ~_serial.stop) =>
        _serial.next = IF Written = <<>> THEN U32(1)
                       ELSE U32Succ(LastSerial(Written[Len(Written)]))

\* C6: the bytes _recvmsg holds and the bytes not yet read are together what
\* the bus sent from the first message not yet returned on, whatever the
\* chunks were; it asks for 16 bytes first and then for the rest of that
\* message, no more; a message returned holds the bytes of one message of the
\* bus, as many as the sum of its length tuple; a read of zero bytes ends
\* the operation with ConnectionResetError and returns no message.
C6_Framing ==
    /\ Len(wire) >= 4 =>
          (IF pc = "recvmsg" THEN buffer ELSE <<>>) \o inbuf
              = SentFrom(taken + 1) \o partial
    /\ pc = "recvmsg" =>
          /\ Len(buffer) < size
          /\ Len(buffer) < 16 => size = 16
          /\ (Len(buffer) >= 16 /\ taken < Len(arrived)) =>
                size = Len(PeerBytes(arrived[taken + 1], taken + 1))
    /\ (outcome.kind = "return" /\ outcome.idx > 0) =>
          /\ outcome.msg.buf = PeerBytes(arrived[outcome.idx], outcome.idx)
          /\ Len(outcome.msg.buf) = Sum(outcome.msg.length)
          /\ Len(outcome.msg.buf) =
                16 + outcome.msg.length[2]
                   + Pad(outcome.msg.length[2], 8) + outcome.msg.length[4]
    /\ (received = 0 /\ pc # "recvstr") =>
          /\ outcome.kind = "raise"
          /\ outcome.exc = "ConnectionResetError"
          /\ outcome.msg = None

\* a message was returned whose bytes after the first 16 came in two chunks,
\* with bytes of the next message waiting behind it
C6_Witness ==
    /\ outcome.kind = "return" /\ outcome.idx > 0
    /\ pc = "ready"
    /\ received > 0
    /\ received < Len(outcome.msg.buf) - 16
    /\ inbuf # <<>>

\* C7: what connect() writes to the socket is a NUL byte, then the line
\* AUTH EXTERNAL with the hex of the decimal uid (1000: 31303030), then BEGIN,
\* which is written only once a line starting with OK was read, then the
\* Hello call with serial 1; no binary message comes before the fourth write;
\* the name is set only from the reply to Hello that was read.
C7_HandshakeOrdering ==
    /\ Len(wire) >= 1 => wire[1].kind = "str" /\ wire[1].data = <<0>>
    /\ Len(wire) >= 2 =>
          /\ wire[2].kind = "str"
          /\ euid = 1000 =>
                wire[2].data = <<65, 85, 84, 72, 32, 69, 88, 84, 69, 82, 78,
                                 65, 76, 32, 51, 49, 51, 48, 51, 48, 51, 48,
                                 13, 10>>
    /\ Len(wire) >= 3 =>
          /\ wire[3].kind = "str"
          /\ wire[3].data = <<66, 69, 71, 73, 78, 13, 10>>
          /\ Len(peerLine) >= 2 /\ peerLine[1] = 79 /\ peerLine[2] = 75
    /\ (Len(wire) = 3 /\ pc = "hello") => buffer = peerLine \o <<13, 10>>
    /\ Len(wire) >= 4 =>
          /\ wire[4].kind = "msg"
          /\ wire[4].data =
                <<108, 1, 0, 1, 0, 0, 0, 0, 1, 0, 0, 0, 109, 0, 0, 0,
                  1, 1, 111, 0, 21, 0, 0, 0,
                  47, 111, 114, 103, 47, 102, 114, 101, 101, 100, 101, 115,
                  107, 116, 111, 112, 47, 68, 66, 117, 115, 0, 0, 0,
                  2, 1, 115, 0, 20, 0, 0, 0,
                  111, 114, 103, 46, 102, 114, 101, 101, 100, 101, 115, 107,
                  116, 111, 112, 46, 68, 66, 117, 115, 0, 0, 0, 0,
                  3, 1, 115, 0, 5, 0, 0, 0, 72, 101, 108, 108, 111, 0, 0, 0,
                  6, 1, 115, 0, 20, 0, 0, 0,
                  111, 114, 103, 46, 102, 114, 101, 101, 100, 101, 115, 107,
                  116, 111, 112, 46, 68, 66, 117, 115, 0, 0, 0, 0>>
    /\ \A i \in 1..Len(wire) : wire[i].kind # "str" => i >= 4
    /\ _name # None =>
          \E j \in 1..taken :
              /\ HasReply(arrived[j], U32(1))
              /\ \A k \in 1..(j - 1) : ~HasReply(arrived[k], U32(1))
              /\ "destination" \in DOMAIN arrived[j].fields
              /\ _name = arrived[j].fields.destination

\* connect() has returned and the name is the destination of the reply
C7_Witness ==
    /\ _name = PyStr(<<58, 49>>)
    /\ outcome.op = "connect" /\ outcome.kind = "return"
    /\ Len(wire) = 4

\* the bus has answered AUTH with a line that does not start with OK
Refused ==
    /\ peerLine # <<>>
    /\ ~(Len(peerLine) >= 2 /\ peerLine[1] = 79 /\ peerLine[2] = 75)

\* C8: when the bus has answered AUTH with a line that does not start with
\* OK, neither BEGIN nor Hello is written, the name stays unset, connect()
\* goes on to nothing else, and where it has ended it raised DBusError with
\* that line.
C8_AuthRejection ==
    Refused =>
        /\ Len(wire) = 2
        /\ _name = None
        /\ pc \in {"recvstr", "broken", "closed"}
        /\ pc = "broken" => outcome = Raised("connect", "DBusError", peerLine, 0)

\* connect() has failed on the line REJECTED
C8_Witness ==
    /\ peerLine = <<82, 69, 74, 69, 67, 84, 69, 68>>
    /\ pc = "broken"
    /\ outcome.exc = "DBusError"

\* C9: once a read has returned zero bytes, the peer having closed, the
\* operation has ended with an error: it is not still reading.
C9_ReadEndsOnPeerClose ==
    received = 0 =>
        /\ outcome.kind = "raise"
        /\ pc \notin {"recvstr", "recvmsg"}

\* C10: when the message call() or recv() matched is an error (type 3), the
\* operation raises DBusError with the error name, ': ' and the strings of
\* the body joined by ';' if raise_on_error is set, and returns the message
\* if it is not.
C10_ErrorReplies ==
    (outcome.kind \in {"return", "raise"} /\ outcome.idx > 0
     /\ arrived[outcome.idx].type = 3
     /\ SentMatches(arrived[outcome.idx], outcome.idx, header, body)) =>
        LET t == arrived[outcome.idx]
        IN  IF raise_on_error
            THEN /\ outcome.kind = "raise"
                 /\ outcome.exc = "DBusError"
                 /\ outcome.text =
                        t.fields.error.v \o <<58, 32>>
                        \o Join(<<59>>, [i \in 1..Len(t.body) |-> t.body[i].v])
            ELSE /\ outcome.kind = "return"
                 /\ outcome.msg.buf = PeerBytes(t, outcome.idx)

\* C11: when the with block of a connection has been left, after its last
\* operation returned or with the exception it raised (the bus having gone
\* away or not), the socket is shut down and closed and the connection's
\* socket, serial counter and name are None.
C11_ScopedUse ==
    op = "exit" =>
        /\ pc = "closed"
        /\ sock = "closed"
        /\ _socket = "None"
        /\ _serial = NoSerial
        /\ _name = None
        /\ outcome.op = "exit"

\* the block was left with the ConnectionResetError of a read, after the bus
\* had closed, on a connection that had a name
C11_Witness ==
    /\ op = "exit"
    /\ peerClosed
    /\ outcome.kind = "raise" /\ outcome.exc = "ConnectionResetError"
    /\ Len(wire) >= 4
    /\ \E j \in 1..taken :
          HasReply(arrived[j], U32(1)) /\ arrived[j].type = 2

\* the message describes itself: the length tuple sums to the number of its
\* bytes, and the u32 at offset 4 is the body length of the tuple
SelfDescribing(m) ==
    /\ Sum(m.length) = Len(m.buf)
    /\ BytesToInt(Slice(m.buf, 4, 8), m.byteorder) = m.length[4]

C13_RoundTrip ==
    input.kind = "call" /\ input.class = "ok" /\ unpacked # Idle =>
        unpacked.exc = "" /\ unpacked.value = PyList(input.data)

\* the field indices of F in ascending order
RECURSIVE AscendingFrom(_, _)
AscendingFrom(F, i) ==
    IF i > Len(HEADER_FIELDS) THEN <<>>
    ELSE (IF i \in F THEN <<i>> ELSE <<>>) \o AscendingFrom(F, i + 1)

\* the field codes of the entries of an encoded header-field array, in the
\* order they have on the wire: every entry starts on a multiple of 8 with
\* the code, the signature 01 c 00 of its variant, and then the value
RECURSIVE WireCodes(_, _, _)
WireCodes(b, bo, p) ==
    IF p >= Len(b) THEN <<>>
    ELSE LET c == b[p + 3]
             n == IF c = 103 THEN b[p + 5]
                  ELSE BytesToInt(Slice(b, p + 4, p + 8), bo)
             end == CASE c = 117 -> p + 8
                      [] c = 103 -> p + 5 + n + 1
                      [] OTHER -> p + 8 + n + 1
         IN  <<b[p + 1]>>
                 \o WireCodes(b, bo, end + Pad(end, 8))

\* C14: for every subset F of the nine header fields with legal values, in
\* whatever order the fields are supplied, and for both byte orders,
\* decoding the encoded header-field array gives exactly the entries of F,
\* every other field absent, and the fields are on the wire in ascending
\* field index.
C14_HeaderArray ==
    input.kind = "fields" /\ unpacked # Idle =>
        /\ \A i \in 1..Len(HEADER_FIELDS) :
              unpacked.value[HEADER_FIELDS[i]] =
                  IF i \in input.F THEN FieldValue[HEADER_FIELDS[i]] ELSE None
        /\ WireCodes(packed.buf, input.byteorder, 0) = AscendingFrom(input.F, 1)

\* all nine fields, unixfds = 0 among them, supplied in descending order and
\* encoded big-endian, have been decoded
C14_Witness ==
    /\ input.kind = "fields" /\ unpacked # Idle
    /\ input.byteorder = "big"
    /\ input.F = 1..Len(HEADER_FIELDS)
    /\ input.data[1][1] = "unixfds"
    /\ unpacked.value.unixfds = PyInt(U32(0))

\* C15: the encoder raises whenever the values run out before the signature
\* is used up and whenever an integer does not fit its type; it returns no
\* buffer for such input.
C15_EncodeFails ==
    input.kind = "call" /\ input.class \in {"short", "range"}
        /\ packed # Idle => packed.exc # ""

\* the alignment of a value of the type that starts with the code c
Alignment(c) ==
    CASE c \in {120, 116, 100, 40, 123} -> 8
      [] c \in {105, 117, 104, 98, 115, 111, 97} -> 4
      [] c \in {110, 113} -> 2
      [] OTHER -> 1

\* C17: the u32 in front of an encoded array counts the bytes from the start
\* of its first element to the end of its last, without the padding between
\* the length and the first element (here: an array that is the one value
\* of the call, so its length is at offset 0 and its last element ends the
\* buffer).
C17_ArrayLength ==
    /\ input.kind = "call" /\ input.class = "ok"
    /\ Head(input.signature) = 97 /\ Len(input.data) = 1
    /\ packed # Idle /\ packed.exc = ""
    => LET first == 4 + Pad(4, Alignment(input.signature[2]))
           length == BytesToInt(Slice(packed.buf, 0, 4), input.byteorder)
       IN  length = IF input.data[1].v = <<>> THEN 0
                    ELSE Len(packed.buf) - first

\* the decoded body elements of a message, none for an empty body
BodyElements(m) ==
    IF BodyResult(m).exc = "" /\ BodyResult(m).value # None
    THEN BodyResult(m).value.v ELSE <<>>

\* what the spec has match return: every expected header key is in the
\* message with an equal value, and every expected body value that is not
\* None equals the body element at its position
MatchExpected(m, pattern) ==
    /\ \A k \in HeaderKeys :
          pattern.header[k] # None => Header(m)[k] = pattern.header[k]
    /\ \A i \in 1..Len(pattern.body) :
          pattern.body[i] # None =>
              /\ i <= Len(BodyElements(m))
              /\ BodyElements(m)[i] = pattern.body[i]

\* C16: on every message on which no assignment has raised, with or without
\* a body, and for every pattern, match returns a boolean, true exactly
\* when the header and the body are as expected, leaves the message as it
\* is, and returns the same again.
C16_Match ==
    objOp # Idle /\ objOp.name = "match" /\ objOp.hist = {} =>
        /\ objOp.exc = ""
        /\ objOp.result = PyBool(MatchExpected(obj, objOp.arg.v[1]))
        /\ obj = objBefore
        /\ MatchCall(obj, objOp.arg.v[1]).value = objOp.result

\* C18: in every state of a message built from parts, whatever was assigned
\* to its body, a body that is not empty comes with a signature header
\* field.
C18_BodyNeedsSignature ==
    objOp # Idle /\ objOp.origin = "parts" =>
        (obj.length[4] > 0 => GetField(obj, "signature") # None)

\* a message built from parts to which a body of one byte was assigned
C18_Witness ==
    /\ objOp # Idle /\ objOp.origin = "parts"
    /\ objOp.name = "body" /\ objOp.exc = ""
    /\ obj.length[4] = 1 /\ objBefore.length[4] = 0
    /\ GetField(obj, "signature") = PyStr(<<121>>)

\* C18 as the spec states it: the body is not empty if and only if the
\* message has a signature field
C18_BodyIffSignature ==
    objOp # Idle /\ objOp.origin = "parts" /\ objOp.hist = {} =>
        (obj.length[4] > 0 <=> GetField(obj, "signature") # None)

\* the bytes of m2 are those of m1 outside the offsets from..to-1
SameBytesOutside(m1, m2, from, to) ==
    /\ Len(m2.buf) = Len(m1.buf)
    /\ \A i \in 1..Len(m1.buf) :
          (i <= from \/ i > to) => m2.buf[i] = m1.buf[i]

\* the attributes of m2 are those of m1 but for the one named
SameAttributesBut(m1, m2, attr) ==
    /\ m2.byteorder = m1.byteorder /\ m2.version = m1.version
    /\ m2.length = m1.length
    /\ attr # "type" => m2.type = m1.type
    /\ attr # "flags" => m2.flags = m1.flags
    /\ attr # "serial" => m2.serial = m1.serial

C20_FailedBodyAssignment ==
    /\ objOp # Idle /\ objOp.name = "body" /\ objOp.exc # ""
    /\ SelfDescribing(objBefore)
    =>
        /\ obj.buf = objBefore.buf
        /\ obj.length = objBefore.length

\* what is left of a signature after the struct or dict entry that is open
\* depth levels deep has been closed
RECURSIVE AfterClose(_, _)
AfterClose(sig, depth) ==
    IF depth = 0 \/ sig = <<>> THEN sig
    ELSE IF Head(sig) \in {40, 123} THEN AfterClose(Tail(sig), depth + 1)
    ELSE IF Head(sig) \in {41, 125} THEN AfterClose(Tail(sig), depth - 1)
    ELSE AfterClose(Tail(sig), depth)

\* what is left of a signature after its first complete type
RECURSIVE AfterType(_)
AfterType(sig) ==
    IF sig = <<>> THEN <<>>
    ELSE IF Head(sig) = 97 THEN AfterType(Tail(sig))
    ELSE IF Head(sig) \in {40, 123} THEN AfterClose(Tail(sig), 1)
    ELSE Tail(sig)

\* C21: when array() returns without raising, in the encoder and in the
\* decoder, the signature stack holds exactly the codes that follow the
\* array's complete element type, also for an empty array of structs, of
\* dict entries or of arrays (here: the array is the first value of the
\* call; the decoder reads the bytes the encoder returned).
C21_StackAfterArray ==
    /\ input.kind = "call" /\ input.class = "ok"
    /\ Head(input.signature) = 97
    /\ packed # Idle
    => /\ \A r \in {PackArray(input.byteorder, input.data[1],
                              [sig |-> Tail(input.signature), buf |-> <<>>,
                               exc |-> ""])} :
             r.exc = "" => r.sig = AfterType(input.signature)
       /\ packed.exc = "" =>
             \A r \in {UnpackArray(input.byteorder, packed.buf,
                                   [sig |-> Tail(input.signature), pos |-> 0,
                                    exc |-> "", value |-> None])} :
                 r.exc = "" => r.sig = AfterType(input.signature)

\* what a finished thread has: the exception, the message and the result
ThreadOutcome(t) ==
    [exc |-> threads[t].exc, m |-> threads[t].m,
     result |-> IF threads[t].op = "decode" THEN threads[t].result ELSE None]

\* what the operation of the thread gives when it runs alone
AloneOutcome(t) ==
    LET th == threads[t]
        a == AssignBody(th.before, th.value)
        d == BodyResult(th.before)
    IN  IF th.op = "assign" THEN [exc |-> a.exc, m |-> a.m, result |-> None]
        ELSE [exc |-> d.exc, m |-> th.before, result |-> d.value]

\* C22: two threads that assign to or read the body of messages of their
\* own do not interfere: when a thread has finished, its message has the
\* bytes, and its read has returned the values, that the same operation
\* gives when it runs alone.
C22_NoInterference ==
    threads # Idle =>
        \A t \in Threads :
            threads[t].pc \in {"done", "raised"}
                => ThreadOutcome(t) = AloneOutcome(t)

\* the messages of the bus that are replies to the call that is waiting or
\* was made last
RepliesToCall ==
    {j \in 1..Len(arrived) :
        "reply" \in DOMAIN arrived[j].fields
            /\ arrived[j].fields.reply = header["reply"]}

\* call() has ended in recv(): with the first reply the bus sent to it, which
\* it returned or, an error under raise_on_error, raised (the exception is
\* one of excs); or, the bus having closed without a reply, with
\* ConnectionResetError
CallEnded(excs) ==
    /\ op = "call" /\ pc = "ready" /\ received >= 0
    /\ outcome.op = "call" /\ outcome.kind \in {"return", "raise"}
    /\ IF RepliesToCall # {}
       THEN LET i == CHOOSE j \in RepliesToCall :
                        \A k \in RepliesToCall : j <= k
            IN  /\ outcome.idx = i
                /\ IF raise_on_error /\ arrived[i].type = 3
                   THEN outcome.kind = "raise" /\ outcome.exc \in excs
                   ELSE /\ outcome.kind = "return"
                        /\ outcome.msg.buf = PeerBytes(arrived[i], i)
       ELSE /\ peerClosed
            /\ outcome.idx = 0
            /\ outcome.kind = "raise"
            /\ outcome.exc = "ConnectionResetError"

====
